---------------------------- MODULE Spec2Model ----------------------------
(***************************************************************************)
(* Object separation and overlap scoring of CellProfiler's library         *)
(* functions (cellprofiler/library/functions/measurement.py and            *)
(* object_processing.py).  Every library function is a call: the state     *)
(* records the call (op), its arguments (args), whether it has run (pc),   *)
(* the local variables it had computed when it ended (frame) and how it    *)
(* ended (ret).                                                            *)
(*                                                                         *)
(* Images are single-row arrays of NPix pixels (shape 1 x NPix); pixel p   *)
(* of an image img is img[p], p in 1..NPix.                                *)
(***************************************************************************)
EXTENDS Integers, Sequences, FiniteSets, TLC

VARIABLES op, args, pc, frame, ret

vars == <<op, args, pc, frame, ret>>

\* Number of pixels of every image of the model.
NPix == 3

Pix == 1..NPix

\* Label values of the label images of the model (0 is background): a row of
\* NPix pixels holds at most (NPix + 1) / 2 separate objects.
MaxLabel == (NPix + 1) \div 2

Labels == 0..MaxLabel

BoolImages == [Pix -> BOOLEAN]

LabelImages == [Pix -> Labels]

\* An optional argument: None is the empty tuple, a given value v is <<v>>.
None == <<>>

Some(v) == <<v>>

IsNone(o) == Len(o) = 0

\* Mutant: the method names compared as written.
casefold_identity(name) == name

\* str.casefold on the method names of the model.
casefold(name) ==
    CASE name \in {"None", "NONE"} -> "none"
      [] name = "Shape" -> "shape"
      [] name = "Propagate" -> "propagate"
      [] name = "KMeans" -> "kmeans"
      [] OTHER -> name

(***************************************************************************)
(* Floating point values.  Every float the modelled code computes is a     *)
(* ratio of small integers, so a float is the exact fraction n/d in lowest *)
(* terms with d > 0; d = 0 is what numpy division by zero leaves: NaN      *)
(* (n = 0) or +-inf (n = +-1).                                             *)
(***************************************************************************)
Abs(x) == IF x < 0 THEN -x ELSE x

Sign(x) == IF x < 0 THEN -1 ELSE IF x > 0 THEN 1 ELSE 0

RECURSIVE Gcd(_, _)
Gcd(a, b) == IF b = 0 THEN a ELSE Gcd(b, a % b)

Frac(n, d) ==
    IF d = 0 THEN [n |-> Sign(n), d |-> 0]
    ELSE LET g == Gcd(Abs(n), Abs(d))
         IN  [n |-> Sign(d) * Sign(n) * (Abs(n) \div g), d |-> Abs(d) \div g]

NaN == [n |-> 0, d |-> 0]

IsNaN(x) == x.d = 0 /\ x.n = 0

IsFinite(x) == x.d > 0

FInt(i) == [n |-> i, d |-> 1]

FAdd(x, y) == IF x.d = 0 \/ y.d = 0 THEN NaN ELSE Frac(x.n * y.d + y.n * x.d, x.d * y.d)

FSub(x, y) == IF x.d = 0 \/ y.d = 0 THEN NaN ELSE Frac(x.n * y.d - y.n * x.d, x.d * y.d)

FMul(x, y) == IF x.d = 0 \/ y.d = 0 THEN NaN ELSE Frac(x.n * y.n, x.d * y.d)

\* numpy's true division: x / 0 is NaN or +-inf (a warning, no exception).
NpDiv(x, y) == IF x.d = 0 \/ y.d = 0 THEN NaN ELSE Frac(x.n * y.d, x.d * y.n)

FLeq(x, y) == x.d > 0 /\ y.d > 0 /\ x.n * y.d <= y.n * x.d

InUnit(x) == FLeq(FInt(0), x) /\ FLeq(x, FInt(1))

RECURSIVE SetToSeq(_)
SetToSeq(S) ==
    IF S = {} THEN <<>>
    ELSE LET x == CHOOSE y \in S : TRUE IN <<x>> \o SetToSeq(S \ {x})

RECURSIVE SumSeq(_)
SumSeq(s) == IF Len(s) = 0 THEN 0 ELSE Head(s) + SumSeq(Tail(s))

LabelSeq == SetToSeq(Labels)

(***************************************************************************)
(* compute_rand_index                                                      *)
(***************************************************************************)
\* labels[mask]: the pixels the mask selects.
Selected(mask) == {p \in Pix : mask[p]}

\* The contingency table: N_ij[i][j] pixels have ground-truth label i and
\* test label j.
N_ij(ground_truth_labels, test_labels, mask) ==
    [i \in Labels |-> [j \in Labels |->
        Cardinality({p \in Selected(mask) :
            ground_truth_labels[p] = i /\ test_labels[p] = j})]]

\* Mutant: the ordered pairs of x things (the division by 2 left out).
choose2_ordered(x) == x * (x - 1)

\* x * (x - 1) / 2 of an integer-valued float x: x * (x - 1) is even, the
\* quotient is the exact integer.
choose2(x) == (x * (x - 1)) \div 2

\* numpy.sum of a vector indexed by label.
SumLabels(f) == SumSeq([k \in 1..Len(LabelSeq) |-> f[LabelSeq[k]]])

\* numpy.sum of a table indexed by two labels.
SumCells(f) == SumLabels([i \in Labels |-> SumLabels(f[i])])

\* numpy.sum(N_ij, 1) and numpy.sum(N_ij, 0).
N_i(N) == [i \in Labels |-> SumLabels(N[i])]

N_j(N) == [j \in Labels |-> SumLabels([i \in Labels |-> N[i][j]])]

\* Mutant: C and D count every pair twice (the division by 2 left out).
RandFromSumsUnhalved(N, Ni, Nj, n) ==
    LET A     == FInt(SumCells([i \in Labels |-> [j \in Labels |-> choose2(N[i][j])]]))
        C     == FInt(SumCells([i \in Labels |-> [j \in Labels |->
                                        (Ni[i] - N[i][j]) * N[i][j]]]))
        D     == FInt(SumCells([i \in Labels |-> [j \in Labels |->
                                        (Nj[j] - N[i][j]) * N[i][j]]]))
        total == FInt(choose2(n))
        B     == FSub(FSub(FSub(total, A), C), D)
        sum_i == FInt(SumLabels([i \in Labels |-> choose2(Ni[i])]))
        sum_j == FInt(SumLabels([j \in Labels |-> choose2(Nj[j])]))
        expected_index == FMul(sum_i, sum_j)
        max_index == NpDiv(FMul(FAdd(sum_i, sum_j), total), FInt(2))
    IN  [A |-> A, B |-> B, C |-> C, D |-> D, total |-> total,
         expected_index |-> expected_index, max_index |-> max_index]

\* The local variables of compute_rand_index computed from the table N, its
\* row sums Ni and column sums Nj, and the number n of selected pixels.
RandFromSums(N, Ni, Nj, n) ==
    LET A     == FInt(SumCells([i \in Labels |-> [j \in Labels |-> choose2(N[i][j])]]))
        C     == NpDiv(FInt(SumCells([i \in Labels |-> [j \in Labels |->
                                        (Ni[i] - N[i][j]) * N[i][j]]])), FInt(2))
        D     == NpDiv(FInt(SumCells([i \in Labels |-> [j \in Labels |->
                                        (Nj[j] - N[i][j]) * N[i][j]]])), FInt(2))
        total == FInt(choose2(n))
        B     == FSub(FSub(FSub(total, A), C), D)
        sum_i == FInt(SumLabels([i \in Labels |-> choose2(Ni[i])]))
        sum_j == FInt(SumLabels([j \in Labels |-> choose2(Nj[j])]))
        expected_index == FMul(sum_i, sum_j)
        max_index == NpDiv(FMul(FAdd(sum_i, sum_j), total), FInt(2))
    IN  [A |-> A, B |-> B, C |-> C, D |-> D, total |-> total,
         expected_index |-> expected_index, max_index |-> max_index]

RandFromTable(N, n) ==
    CHOOSE l \in {RandFromSums(N, Ni, Nj, n) : Ni \in {N_i(N)}, Nj \in {N_j(N)}} : TRUE

\* The local variables of compute_rand_index when its mask selects a pixel.
RandLocals(test_labels, ground_truth_labels, mask) ==
    CHOOSE l \in {RandFromTable(N, Cardinality(Selected(mask))) :
                    N \in {N_ij(ground_truth_labels, test_labels, mask)}} : TRUE

\* Mutant: the agreeing pairs without B.
rand_index_without_B(l) == NpDiv(l.A, l.total)

rand_index_of(l) == NpDiv(FAdd(l.A, l.B), l.total)

adjusted_rand_index_of(l) ==
    NpDiv(FSub(FMul(l.A, l.total), l.expected_index), FSub(l.max_index, l.expected_index))

\* if len(test_labels) > 0
HasSelected(mask) == Cardinality(Selected(mask)) > 0

\* Mutant: an empty selection scored 0 instead of NaN.
compute_rand_index_zero(test_labels, ground_truth_labels, mask) ==
    IF HasSelected(mask)
    THEN CHOOSE r \in {[frame |-> l,
                        rand_index |-> rand_index_of(l),
                        adjusted_rand_index |-> adjusted_rand_index_of(l)] :
                       l \in {RandLocals(test_labels, ground_truth_labels, mask)}} : TRUE
    ELSE [frame |-> <<>>, rand_index |-> FInt(0), adjusted_rand_index |-> FInt(0)]

\* The frame of a call of compute_rand_index and the pair it returns.
compute_rand_index(test_labels, ground_truth_labels, mask) ==
    IF HasSelected(mask)
    THEN CHOOSE r \in {[frame |-> l,
                        rand_index |-> rand_index_of(l),
                        adjusted_rand_index |-> adjusted_rand_index_of(l)] :
                       l \in {RandLocals(test_labels, ground_truth_labels, mask)}} : TRUE
    ELSE [frame |-> <<>>, rand_index |-> NaN, adjusted_rand_index |-> NaN]

RandArgs ==
    [test_labels : LabelImages, ground_truth_labels : LabelImages, mask : BoolImages]

ComputeRandIndex ==
    /\ pc = "call"
    /\ op = "compute_rand_index"
    /\ \E r \in {compute_rand_index(args.test_labels, args.ground_truth_labels, args.mask)} :
           /\ frame' = r.frame
           /\ ret' = [kind |-> "returned",
                      value |-> [rand_index |-> r.rand_index,
                                 adjusted_rand_index |-> r.adjusted_rand_index]]
    /\ pc' = "done"
    /\ UNCHANGED <<op, args>>

(***************************************************************************)
(* compute_earth_movers_distance, called with numpy label images and an    *)
(* integer max_distance (its annotated type and its default)               *)
(***************************************************************************)
max_distance_default == 250

max_points_default == 250

decimation_method_default == "kmeans"

\* numpy.max(angels) == 0
IsEmptyObjects(objects) == \A p \in Pix : objects[p] = 0

\* Lines 248..273, reached when both object sets are non-empty.  Only the
\* name "kmeans" (in any case) selects get_kmeans_points; every other value,
\* the annotated "k_means" included, selects
\* get_skeleton_points, which calls obj.get_labels() on a numpy array
\* (AttributeError).  After get_kmeans_points the code reads
\* max_distance.value (line 266) of the integer max_distance, which raises
\* AttributeError unless an earlier line has raised already (numpy.vstack of
\* the ijv array and the label image at line 337, the indexing of
\* get_weights at line 361): the call ends in an exception either way.
emd_after_empty_check(decimation_method) ==
    IF casefold(decimation_method) = "kmeans"
    THEN [kind |-> "raised", value |-> 0, error |-> "Exception",
          calls |-> <<"get_kmeans_points">>]
    ELSE [kind |-> "raised", value |-> 0, error |-> "AttributeError",
          calls |-> <<"get_skeleton_points">>]

compute_earth_movers_distance(src_objects, dest_objects, decimation_method, max_distance, max_points, penalize_missing) ==
    IF ~(max_distance > 1)
    THEN [kind |-> "raised", value |-> 0, error |-> "AssertionError", calls |-> <<>>]
    ELSE IF IsEmptyObjects(src_objects) \/ IsEmptyObjects(dest_objects)
    THEN IF penalize_missing
         \* numpy.sum(demons.areas) * max_distance.value: a numpy array has no
         \* attribute areas
         THEN [kind |-> "raised", value |-> 0, error |-> "AttributeError", calls |-> <<>>]
         ELSE [kind |-> "returned", value |-> 0, error |-> "", calls |-> <<>>]
    ELSE emd_after_empty_check(decimation_method)

EmdArgs ==
    [src_objects : LabelImages, dest_objects : LabelImages,
     decimation_method : {"kmeans", "KMeans", "k_means", "skeleton"},
     max_distance : {1, max_distance_default},
     max_points : {max_points_default},
     penalize_missing : BOOLEAN]

ComputeEarthMoversDistance ==
    /\ pc = "call"
    /\ op = "compute_earth_movers_distance"
    /\ \E r \in {compute_earth_movers_distance(args.src_objects, args.dest_objects,
                    args.decimation_method, args.max_distance, args.max_points,
                    args.penalize_missing)} :
           /\ frame' = [calls |-> r.calls]
           /\ ret' = [kind |-> r.kind, value |-> r.value, error |-> r.error]
    /\ pc' = "done"
    /\ UNCHANGED <<op, args>>

(***************************************************************************)
(* measure_image_overlap                                                   *)
(***************************************************************************)
\* Pixel values of a ground-truth image: 0 (False), 1 (True) and a value
\* that is neither.
GroundTruthValues == {0, 1, 2}

GroundTruthImages == [Pix -> GroundTruthValues]

\* ground_truth_image.astype(bool)
astype_bool(image) == [p \in Pix |-> image[p] # 0]

\* numpy.array_equal of an integer array and a boolean array (True == 1,
\* False == 0).
array_equal(image, bools) == \A p \in Pix : image[p] = (IF bools[p] THEN 1 ELSE 0)

\* Mutant: the check of the commented-out line 9, which demands that both
\* values occur.
IsBinaryBothValues(ground_truth_image) ==
    {ground_truth_image[p] : p \in Pix} = {0, 1}

\* not numpy.array_equal(ground_truth_image, ground_truth_image.astype(bool))
\* is false
IsBinary(ground_truth_image) ==
    array_equal(ground_truth_image, astype_bool(ground_truth_image))

\* numpy.ones_like(ground_truth_image, bool)
ones_like == [p \in Pix |-> TRUE]

\* Python's float division, which raises ZeroDivisionError: the marker
\* ZeroDivision stands for the raise.
ZeroDivision == [n |-> 0, d |-> -1]

PyDiv(x, y) ==
    IF x = ZeroDivision \/ y = ZeroDivision \/ y.n = 0 THEN ZeroDivision
    ELSE Frac(x.n * y.d, x.d * y.n)

\* scipy.ndimage.label with the all-ones 3 x 3 structure, on a row: the runs
\* of foreground pixels numbered from 1 in raster order.
label(bools) ==
    [p \in Pix |->
        IF bools[p]
        THEN Cardinality({q \in 1..p : bools[q] /\ (q = 1 \/ ~bools[q - 1])})
        ELSE 0]

\* The confusion counts under the mask (lines 23..45).
ConfusionCounts(G, T, mask) ==
    [false_positive_count |-> Cardinality({p \in Pix : mask[p] /\ T[p] /\ ~G[p]}),
     true_positive_count  |-> Cardinality({p \in Pix : mask[p] /\ T[p] /\ G[p]}),
     false_negative_count |-> Cardinality({p \in Pix : mask[p] /\ ~T[p] /\ G[p]}),
     true_negative_count  |-> Cardinality({p \in Pix : mask[p] /\ ~T[p] /\ ~G[p]})]

\* Mutant: the precision without its zero-denominator default.
precision_unguarded(true_positive_count, labeled_pixel_count) ==
    PyDiv(FInt(true_positive_count), FInt(labeled_pixel_count))

precision_of(true_positive_count, labeled_pixel_count) ==
    IF labeled_pixel_count = 0 THEN FInt(1)
    ELSE PyDiv(FInt(true_positive_count), FInt(labeled_pixel_count))

recall_of(true_positive_count, true_count) ==
    IF true_count = 0 THEN FInt(1)
    ELSE PyDiv(FInt(true_positive_count), FInt(true_count))

\* Mutant: the F-factor without its zero-denominator default.
f_factor_unguarded(precision, recall) ==
    PyDiv(FMul(FMul(FInt(2), precision), recall), FAdd(precision, recall))

f_factor_of(precision, recall) ==
    IF FAdd(precision, recall) = FInt(0) THEN FInt(0)
    ELSE PyDiv(FMul(FMul(FInt(2), precision), recall), FAdd(precision, recall))

false_positive_rate_of(false_positive_count, negative_count) ==
    IF negative_count = 0 THEN FInt(0)
    ELSE PyDiv(FInt(false_positive_count), FInt(negative_count))

true_negative_rate_of(true_negative_count, negative_count) ==
    IF negative_count = 0 THEN FInt(1)
    ELSE PyDiv(FInt(true_negative_count), FInt(negative_count))

false_negative_rate_of(false_negative_count, true_count) ==
    IF true_count = 0 THEN FInt(0)
    ELSE PyDiv(FInt(false_negative_count), FInt(true_count))

true_positive_rate_of(true_positive_count, true_count) ==
    IF true_count = 0 THEN FInt(1)
    ELSE PyDiv(FInt(true_positive_count), FInt(true_count))

\* The metrics of lines 47..83 from the confusion counts c.
MetricsOfCounts(c, precision, recall) ==
    [Ffactor      |-> f_factor_of(precision, recall),
     Precision    |-> precision,
     Recall       |-> recall,
     TruePosRate  |-> true_positive_rate_of(c.true_positive_count,
                          c.true_positive_count + c.false_negative_count),
     FalsePosRate |-> false_positive_rate_of(c.false_positive_count,
                          c.false_positive_count + c.true_negative_count),
     FalseNegRate |-> false_negative_rate_of(c.false_negative_count,
                          c.true_positive_count + c.false_negative_count),
     TrueNegRate  |-> true_negative_rate_of(c.true_negative_count,
                          c.false_positive_count + c.true_negative_count)]

OverlapMetrics(c) ==
    CHOOSE m \in {MetricsOfCounts(c, precision, recall) :
                    precision \in {precision_of(c.true_positive_count,
                                      c.true_positive_count + c.false_positive_count)},
                    recall \in {recall_of(c.true_positive_count,
                                      c.true_positive_count + c.false_negative_count)}} : TRUE

MetricNames ==
    {"Ffactor", "Precision", "Recall", "TruePosRate", "FalsePosRate",
     "FalseNegRate", "TrueNegRate"}

\* Lines 85..112, with the two labelings of lines 85..91: score the
\* labelings and return the record; an exception of a callee ends the call.
OverlapScored(counts, m, test_labels, ground_truth_labels, mask) ==
    IF \E k \in MetricNames : m[k] = ZeroDivision
    THEN [frame |-> [computed |-> {"counts", "metrics"}, counts |-> counts, metrics |-> m],
          ret |-> [kind |-> "raised", error |-> "ZeroDivisionError", value |-> <<>>]]
    ELSE CHOOSE r \in
        {IF emd.kind = "raised"
         THEN [frame |-> [computed |-> {"counts", "metrics"}, counts |-> counts, metrics |-> m],
               ret |-> [kind |-> "raised", error |-> emd.error, value |-> <<>>]]
         ELSE [frame |-> [computed |-> {"counts", "metrics"}, counts |-> counts, metrics |-> m],
               ret |-> [kind |-> "returned", error |-> "",
                        value |-> [Ffactor |-> m.Ffactor,
                                   Precision |-> m.Precision,
                                   Recall |-> m.Recall,
                                   TruePosRate |-> m.TruePosRate,
                                   FalsePosRate |-> m.FalsePosRate,
                                   FalseNegRate |-> m.FalseNegRate,
                                   TrueNegRate |-> m.TrueNegRate,
                                   RandIndex |-> ri.rand_index,
                                   AdjustedRandIndex |-> ri.adjusted_rand_index,
                                   EarthMoversDistance |-> emd.value]]] :
            ri \in {compute_rand_index(test_labels, ground_truth_labels, mask)},
            emd \in {compute_earth_movers_distance(test_labels, ground_truth_labels,
                        decimation_method_default, max_distance_default,
                        max_points_default, FALSE)}} : TRUE

\* Lines 20..112 for a binary ground truth G, a test image T and the mask.
OverlapOfBinary(G, T, mask) ==
    CHOOSE r \in
        {OverlapScored(counts, OverlapMetrics(counts),
                       label([p \in Pix |-> T[p] /\ mask[p]]),
                       label([p \in Pix |-> G[p] /\ mask[p]]), mask) :
            counts \in {ConfusionCounts(G, T, mask)}} : TRUE

\* The numbers of dimensions of the images of a call: a plane, and a stack
\* of planes (whose voxels are the pixels of the model).
Dimensions == {2, 3}

\* The frame of a call of measure_image_overlap and how the call ends.  For
\* images of more than 2 dimensions lines 14..18 reshape ground_truth_image
\* and test_image to 2 dimensions and leave a given mask as it is: the
\* boolean index of line 25, false_positives[~mask], then has more
\* dimensions than the array it indexes (IndexError).
measure_image_overlap(ground_truth_image, test_image, mask_arg, ndim) ==
    IF ~IsBinary(ground_truth_image)
    THEN [frame |-> [computed |-> {}],
          ret |-> [kind |-> "raised", error |-> "ValueError", value |-> <<>>]]
    ELSE IF ndim > 2 /\ ~IsNone(mask_arg)
    THEN [frame |-> [computed |-> {}],
          ret |-> [kind |-> "raised", error |-> "IndexError", value |-> <<>>]]
    ELSE OverlapOfBinary([p \in Pix |-> ground_truth_image[p] = 1], test_image,
                         IF IsNone(mask_arg) THEN ones_like ELSE mask_arg[1])

OverlapArgs ==
    [ground_truth_image : GroundTruthImages, test_image : BoolImages,
     mask : {None} \cup {Some(m) : m \in BoolImages}, ndim : Dimensions]

MeasureImageOverlap ==
    /\ pc = "call"
    /\ op = "measure_image_overlap"
    /\ \E r \in {measure_image_overlap(args.ground_truth_image, args.test_image,
                                       args.mask, args.ndim)} :
           /\ frame' = r.frame
           /\ ret' = r.ret
    /\ pc' = "done"
    /\ UNCHANGED <<op, args>>

(***************************************************************************)
(* separate_neighboring_objects                                            *)
(***************************************************************************)
\* The method names of the model: the documented ones, spellings in other
\* case, and an unsupported one.
UnclumpNames == {"intensity", "shape", "none", "None", "Shape", "bogus"}

WatershedNames == {"intensity", "shape", "propagate", "none", "NONE", "Propagate", "bogus"}

maxima_suppression_size_default == 7

\* The suppression size returned with an unchanged label image (line 502).
maxima_suppression_size_none == 7

\* The minimum size up to which maxima are detected at full resolution
\* (line 509) and the resolution of the low-resolution image (line 510).
min_size_full_resolution == 10

\* Lines 509..522: the effective maxima suppression size.
maxima_suppression_size_of(min_size, low_res_maxima, automatic_suppression, maxima_suppression_size) ==
    IF min_size > min_size_full_resolution /\ low_res_maxima
    THEN IF automatic_suppression THEN FInt(7)
         ELSE FAdd(FMul(FInt(maxima_suppression_size),
                        Frac(min_size_full_resolution, min_size)), Frac(1, 2))
    ELSE IF automatic_suppression THEN Frac(2 * min_size, 3)
         ELSE FInt(maxima_suppression_size)

\* numpy.zeros_like(labeled_image)
zeros_like == [p \in Pix |-> 0]

\* The pixels p..q of the row are all foreground of labeled_image.
SameRun(labeled_image, p, q) ==
    \A x \in Pix : ((p <= x /\ x <= q) \/ (q <= x /\ x <= p)) => labeled_image[x] # 0

\* The maxima images get_maxima can return (lines 287..340).  The maxima
\* are found within the objects by centrosome's is_local_maximum and every
\* blob of touching maxima is shrunk to one pixel by binary_shrink: a set of
\* foreground pixels no two of which touch.
MaximaImages(labeled_image) ==
    {m \in [Pix -> {0, 1}] :
        /\ \A p \in Pix : m[p] = 1 => labeled_image[p] # 0
        /\ \A p \in Pix : (p < NPix /\ m[p] = 1) => m[p + 1] = 0}

\* The seeds that can claim pixel p: the nearest seed on each side of p
\* within p's run of foreground.
SeedsFor(labeled_image, labeled_maxima, p) ==
    {q \in Pix : /\ labeled_maxima[q] > 0
                 /\ SameRun(labeled_image, p, q)
                 /\ \A x \in Pix : (labeled_maxima[x] > 0 /\ x # q
                                     /\ ((q < x /\ x <= p) \/ (p <= x /\ x < q))) => FALSE}

Distance(p, q) == Abs(p - q)

\* The seeds nearest to pixel p among those that can claim it.
NearestSeedsFor(labeled_image, labeled_maxima, p) ==
    {q \in SeedsFor(labeled_image, labeled_maxima, p) :
        \A x \in SeedsFor(labeled_image, labeled_maxima, p) : Distance(p, q) <= Distance(p, x)}

\* Mutant: the markers keep the sign of the seed ids.
markers_unnegated(labeled_maxima) == labeled_maxima

\* markers[labeled_maxima > 0] = -labeled_maxima[labeled_maxima > 0]
markers_of(labeled_maxima) == [p \in Pix |-> -labeled_maxima[p]]

\* The values centrosome's propagate (unit step cost, no guiding image, mask
\* labeled_image != 0) can give pixel p: background stays 0, a seed keeps
\* its id, a foreground pixel goes to a nearest seed of its run and stays 0
\* in a run without seed.
PropagatedValues(labeled_image, labeled_maxima, p) ==
    IF labeled_image[p] = 0 THEN {0}
    ELSE IF labeled_maxima[p] # 0 THEN {labeled_maxima[p]}
    ELSE {labeled_maxima[q] : q \in NearestSeedsFor(labeled_image, labeled_maxima, p)}
         \cup (IF SeedsFor(labeled_image, labeled_maxima, p) = {} THEN {0} ELSE {})

\* The values skimage's watershed (mask labeled_image != 0) can give pixel
\* p: the marker of the seed whose basin reaches p, one of the seeds on
\* either side of p in its run.
WatershedValues(labeled_image, markers, p) ==
    IF labeled_image[p] = 0 THEN {0}
    ELSE IF markers[p] # 0 THEN {markers[p]}
    ELSE {markers[q] : q \in SeedsFor(labeled_image, [x \in Pix |-> -markers[x]], p)}
         \cup (IF SeedsFor(labeled_image, [x \in Pix |-> -markers[x]], p) = {} THEN {0} ELSE {})

\* The values of a marker image and of a grown image.
SignedLabels == {-l : l \in Labels} \cup Labels

\* The images over the values vals whose pixel p has one of the values
\* allowed[p].
ImagesWithin(allowed, vals) == {g \in [Pix -> vals] : \A p \in Pix : g[p] \in allowed[p]}

\* Lines 585..611: the images watershed_boundaries can be.  The watershed
\* runs on the negated markers and its result is negated back.
GrownImages(labeled_image, labeled_maxima, watershed_method) ==
    IF casefold(watershed_method) = "propagate"
    THEN UNION {ImagesWithin(allowed, Labels) : allowed \in
            {[p \in Pix |-> PropagatedValues(labeled_image, labeled_maxima, p)]}}
    ELSE {[p \in Pix |-> -w[p]] : w \in
            UNION {ImagesWithin(allowed, SignedLabels) : allowed \in
                {[p \in Pix |->
                    WatershedValues(labeled_image, markers_of(labeled_maxima), p)]}}}

\* Mutant: every watershed method counts as supported.
IsSupportedWatershedAny(watershed_method) == TRUE

\* The watershed methods that lines 559..571 accept.
IsSupportedWatershed(watershed_method) ==
    casefold(watershed_method) \in {"intensity", "shape", "propagate"}

\* The unclump methods that lines 530..554 accept.
IsSupportedUnclump(unclump_method) ==
    casefold(unclump_method) \in {"intensity", "shape"}

\* The calls of lines 506..556 (smoothing, maxima detection) for a supported
\* unclump method, and the calls of lines 559..611 for a supported
\* watershed method.
UnclumpCalls(unclump_method) ==
    IF casefold(unclump_method) = "intensity"
    THEN <<"smooth_image", "strel_disk", "get_maxima">>
    ELSE <<"smooth_image", "strel_disk", "distance_transform_edt",
           "numpy.random.seed", "numpy.random.uniform", "get_maxima">>

WatershedCalls(unclump_method, watershed_method) ==
    IF casefold(watershed_method) = "propagate" THEN <<"label", "propagate">>
    ELSE IF casefold(watershed_method) = "shape" /\ casefold(unclump_method) # "shape"
    THEN <<"distance_transform_edt", "label", "watershed">>
    ELSE <<"label", "watershed">>

\* The call gets to the maxima detection and to the growth.
ReachesGrowth(unclump_method, watershed_method) ==
    /\ casefold(unclump_method) # "none"
    /\ casefold(watershed_method) # "none"
    /\ IsSupportedUnclump(unclump_method)
    /\ IsSupportedWatershed(watershed_method)

\* separate_neighboring_objects, given the maxima image that get_maxima
\* returns and the image that the growth returns where the call gets that
\* far.
separate_neighboring_objects(labeled_image, unclump_method, watershed_method, min_size, low_res_maxima, maxima_suppression_size, automatic_suppression, return_cp_output, maxima_image, grown) ==
    IF casefold(unclump_method) = "none" \/ casefold(watershed_method) = "none"
    THEN [frame |-> [calls |-> <<>>],
          ret |-> [kind |-> "returned", error |-> "",
                   value |-> IF return_cp_output
                             THEN <<labeled_image, zeros_like,
                                    FInt(maxima_suppression_size_none)>>
                             ELSE labeled_image]]
    ELSE IF ~IsSupportedUnclump(unclump_method)
    THEN [frame |-> [calls |-> <<"smooth_image", "strel_disk">>],
          ret |-> [kind |-> "raised", error |-> "ValueError", value |-> <<>>]]
    ELSE IF ~IsSupportedWatershed(watershed_method)
    THEN [frame |-> [calls |-> UnclumpCalls(unclump_method)],
          ret |-> [kind |-> "raised", error |-> "ValueError", value |-> <<>>]]
    ELSE [frame |-> [calls |-> UnclumpCalls(unclump_method)
                               \o WatershedCalls(unclump_method, watershed_method),
                     labeled_maxima |-> label([p \in Pix |-> maxima_image[p] # 0])],
          ret |-> [kind |-> "returned", error |-> "",
                   value |-> IF return_cp_output
                             THEN <<grown, label([p \in Pix |-> maxima_image[p] # 0]),
                                    maxima_suppression_size_of(min_size, low_res_maxima,
                                        automatic_suppression, maxima_suppression_size)>>
                             ELSE grown]]

SeparateArgs ==
    [labeled_image : LabelImages,
     unclump_method : UnclumpNames,
     watershed_method : WatershedNames,
     min_size : {10, 20},
     low_res_maxima : BOOLEAN,
     maxima_suppression_size : {maxima_suppression_size_default},
     automatic_suppression : BOOLEAN,
     return_cp_output : BOOLEAN]

SeparateNeighboringObjects ==
    /\ pc = "call"
    /\ op = "separate_neighboring_objects"
    /\ \E maxima_image \in
            IF ReachesGrowth(args.unclump_method, args.watershed_method)
            THEN MaximaImages(args.labeled_image) ELSE {zeros_like} :
         \E grown \in
            IF ReachesGrowth(args.unclump_method, args.watershed_method)
            THEN GrownImages(args.labeled_image, label([p \in Pix |-> maxima_image[p] # 0]),
                             args.watershed_method)
            ELSE {zeros_like} :
           \E r \in {separate_neighboring_objects(args.labeled_image, args.unclump_method,
                        args.watershed_method, args.min_size, args.low_res_maxima,
                        args.maxima_suppression_size, args.automatic_suppression,
                        args.return_cp_output, maxima_image, grown)} :
              /\ frame' = r.frame
              /\ ret' = r.ret
    /\ pc' = "done"
    /\ UNCHANGED <<op, args>>

(***************************************************************************)
(* get_weights.  The representatives lie in the one row of the image: i is *)
(* all zero and j holds their columns.                                     *)
(***************************************************************************)
\* The largest number of representatives of a call.
MaxPoints == 2

PointLists == UNION {[1..n -> Pix] : n \in 0..MaxPoints}

\* Lines 360..361: total_skel[i, j] = numpy.arange(1, len(i) + 1).  numpy
\* gives no order for an assignment that sets an element more than once: a
\* pixel that holds several representatives ends with the index of any of
\* them.
TotalSkels(j) ==
    {t \in [Pix -> 0..Len(j)] :
        \A p \in Pix : IF \E k \in 1..Len(j) : j[k] = p
                       THEN t[p] > 0 /\ j[t[p]] = p
                       ELSE t[p] = 0}

\* Lines 366..368: the pixels distance_transform_edt can name as the
\* nearest chosen point of pixel p, any of those at the least distance.
NearestChosen(total_skel, p) ==
    {q \in Pix : /\ total_skel[q] # 0
                 /\ \A x \in Pix : total_skel[x] # 0 => Distance(p, q) <= Distance(p, x)}

NearestImages(total_skel) ==
    UNION {ImagesWithin(allowed, Pix) : allowed \in
            {[p \in Pix |-> NearestChosen(total_skel, p)]}}

\* Mutant: numpy.bincount without the [1:] that drops the count of index 0.
BincountUnshifted(total_skel, nearest, labels_mask, k) ==
    Cardinality({p \in Pix : labels_mask[p] /\ total_skel[nearest[p]] = k - 1})

\* Line 380: numpy.bincount(total_skel[ii, jj])[1:], the number of pixels of
\* the mask whose nearest chosen point has index k.
Bincount(total_skel, nearest, labels_mask, k) ==
    Cardinality({p \in Pix : labels_mask[p] /\ total_skel[nearest[p]] = k})

\* Without a chosen point distance_transform_edt has no background element
\* to point at and its indices are whatever the library leaves: inside the
\* image (any pixel) or outside it (0).
NearestWithoutChosen == {[p \in Pix |-> p], [p \in Pix |-> 0]}

\* get_weights, given the total_skel the assignment of line 361 leaves and
\* the nearest points the distance transform names.
get_weights(j, labels_mask, total_skel, nearest) ==
    IF \A p \in Pix : ~labels_mask[p]
    THEN [kind |-> "returned", error |-> "", value |-> <<>>]
    ELSE IF \E p \in Pix : labels_mask[p] /\ nearest[p] \notin Pix
    THEN [kind |-> "raised", error |-> "IndexError", value |-> <<>>]
    ELSE [kind |-> "returned", error |-> "",
          value |-> [k \in 1..Len(j) |-> Bincount(total_skel, nearest, labels_mask, k)]]

WeightsArgs == [j : PointLists, labels_mask : BoolImages]

GetWeights ==
    /\ pc = "call"
    /\ op = "get_weights"
    /\ \E total_skel \in TotalSkels(args.j) :
         \E nearest \in IF Len(args.j) = 0 THEN NearestWithoutChosen
                        ELSE NearestImages(total_skel) :
           /\ frame' = [total_skel |-> total_skel]
           /\ ret' = get_weights(args.j, args.labels_mask, total_skel, nearest)
    /\ pc' = "done"
    /\ UNCHANGED <<op, args>>

(***************************************************************************)
(* merge_objects, preserve_objects, discard_objects and segment_objects.   *)
(* labels_x and labels_y are the caller's arrays: the frame of a call      *)
(* holds their contents when the call ends.                                *)
(***************************************************************************)
\* labels.max()
ImageMax(labels) == CHOOSE v \in {labels[p] : p \in Pix} : \A q \in Pix : labels[q] <= v

\* labels_y[labels_y > 0] += labels_x.max()
ShiftedLabels(labels_x, labels_y) ==
    [p \in Pix |-> IF labels_y[p] > 0 THEN labels_y[p] + ImageMax(labels_x) ELSE labels_y[p]]

\* numpy.unique(labels) restricted to the positive values.
PositiveIndices(labels) == {labels[p] : p \in Pix} \ {0}

\* numpy.logical_xor(labels_x > 0, labels_y > 0)
Undisputed(labels_x, labels_y) == [p \in Pix |-> (labels_x[p] > 0) # (labels_y[p] > 0)]

\* numpy.isin(labels, numpy.setdiff1d(indices, labels[~undisputed]))
UndisputedMask(labels, undisputed) ==
    [p \in Pix |-> labels[p] \in
        (PositiveIndices(labels) \ {labels[q] : q \in {x \in Pix : ~undisputed[x]}})]

\* labels[mask] = 0
ZeroedWhere(labels, mask) == [p \in Pix |-> IF mask[p] THEN 0 ELSE labels[p]]

\* "Resolve non-conflicting labels first", given the shifted labels_y: the
\* objects that overlap no object of the other set move to the output and
\* are zeroed in labels_x and labels_y.
ResolveUndisputed(labels_x, labels_y) ==
    CHOOSE r \in
        {[labels_x |-> ZeroedWhere(labels_x, mask_x),
          labels_y |-> ZeroedWhere(labels_y, mask_y),
          output |-> [p \in Pix |-> IF mask_y[p] THEN labels_y[p]
                                    ELSE IF mask_x[p] THEN labels_x[p] ELSE 0]] :
            mask_x \in {UndisputedMask(labels_x, Undisputed(labels_x, labels_y))},
            mask_y \in {UndisputedMask(labels_y, Undisputed(labels_x, labels_y))}} : TRUE

\* preserve_objects: the caller's arrays after the call and the result.
preserve_objects(labels_x, labels_y) ==
    CHOOSE r \in
        {[labels_x |-> labels_x,
          labels_y |-> shifted,
          ret |-> [kind |-> "returned", error |-> "",
                   value |-> [p \in Pix |-> IF labels_x[p] > 0 THEN labels_x[p]
                                            ELSE shifted[p]]]] :
            shifted \in {ShiftedLabels(labels_x, labels_y)}} : TRUE

\* discard_objects: labels_y is used as it is passed, its labels are not
\* shifted by labels_x.max().
discard_objects(labels_x, labels_y) ==
    CHOOSE r \in
        {[labels_x |-> u.labels_x,
          labels_y |-> u.labels_y,
          ret |-> [kind |-> "returned", error |-> "",
                   value |-> [p \in Pix |-> IF u.labels_x[p] > 0 THEN u.labels_x[p]
                                            ELSE u.output[p]]]] :
            u \in {ResolveUndisputed(labels_x, labels_y)}} : TRUE

\* The index arrays distance_transform_edt(seeds == 0, return_indices=True)
\* can return: at every pixel a nearest pixel with a seed.
NearestSeedImages(seeds) ==
    IF \A p \in Pix : seeds[p] = 0 THEN NearestWithoutChosen
    ELSE NearestImages(seeds)

\* output[to_segment] = seeds[i[to_segment], j[to_segment]]
Segmented(output, to_segment, seeds, nearest) ==
    IF \E p \in Pix : to_segment[p] /\ nearest[p] \notin Pix
    THEN [kind |-> "raised", error |-> "IndexError", value |-> <<>>]
    ELSE [kind |-> "returned", error |-> "",
          value |-> [p \in Pix |-> IF to_segment[p] THEN seeds[nearest[p]] ELSE output[p]]]

\* merge_objects with dimensions == 2 after the undisputed objects are
\* resolved, given the index arrays of the distance transform.
MergeResolved(u, nearest) ==
    [labels_x |-> u.labels_x,
     labels_y |-> u.labels_y,
     ret |-> Segmented(u.output,
                       [p \in Pix |-> u.labels_x[p] > 0 \/ u.labels_y[p] > 0],
                       u.labels_x, nearest)]

merge_objects(labels_x, labels_y, nearest) ==
    CHOOSE r \in
        {MergeResolved(u, nearest) :
            u \in {ResolveUndisputed(labels_x, ShiftedLabels(labels_x, labels_y))}} : TRUE

\* Line 204 of segment_objects: the labels_x objects that lie wholly in
\* disputed pixels.
WillBeLost(labels_x, labels_y) ==
    {labels_x[p] : p \in {x \in Pix : labels_x[x] > 0 /\ labels_y[x] > 0}}
    \ {labels_x[p] : p \in {x \in Pix : ~(labels_x[x] > 0 /\ labels_y[x] > 0)}}

\* numpy.unique(labels_y[labels_x == label])
YLabelsOf(labels_x, labels_y, l) == {labels_y[p] : p \in {x \in Pix : labels_x[x] = l}}

\* The labels_x objects of will_be_lost that a labels_y object matches pixel
\* for pixel (lines 213..218).
IdenticalLabels(labels_x, labels_y) ==
    {l \in WillBeLost(labels_x, labels_y) :
        /\ Cardinality(YLabelsOf(labels_x, labels_y, l)) = 1
        /\ \A p \in Pix : (labels_x[p] = l) <=> (labels_y[p] \in YLabelsOf(labels_x, labels_y, l))}

\* Line 209, "if not y_lab or len(y_lab) > 1": the truth value of an array
\* of more than one element is a ValueError.
AmbiguousTruthValue(labels_x, labels_y) ==
    \E l \in WillBeLost(labels_x, labels_y) : Cardinality(YLabelsOf(labels_x, labels_y, l)) > 1

\* seeds = numpy.add(labels_x, labels_y); seeds[disputed] = 0
SegmentSeeds(labels_x, labels_y) ==
    [p \in Pix |-> IF labels_x[p] > 0 /\ labels_y[p] > 0 THEN 0
                   ELSE labels_x[p] + labels_y[p]]

\* segment_objects with dimensions == 2 after the undisputed objects are
\* resolved, given the index arrays of the distance transform.
SegmentResolved(u, nearest) ==
    [labels_x |-> u.labels_x,
     labels_y |-> u.labels_y,
     ret |-> IF AmbiguousTruthValue(u.labels_x, u.labels_y)
             THEN [kind |-> "raised", error |-> "ValueError", value |-> <<>>]
             ELSE Segmented(
                 [p \in Pix |-> IF u.labels_x[p] \in IdenticalLabels(u.labels_x, u.labels_y)
                                THEN u.labels_x[p] ELSE u.output[p]],
                 [p \in Pix |-> /\ (u.labels_x[p] > 0 \/ u.labels_y[p] > 0)
                                /\ u.labels_x[p] \notin IdenticalLabels(u.labels_x, u.labels_y)],
                 SegmentSeeds(u.labels_x, u.labels_y), nearest)]

segment_objects(labels_x, labels_y, nearest) ==
    CHOOSE r \in
        {SegmentResolved(u, nearest) :
            u \in {ResolveUndisputed(labels_x, ShiftedLabels(labels_x, labels_y))}} : TRUE

CombineArgs == [labels_x : LabelImages, labels_y : LabelImages]

\* The caller's arrays and the outcome of a call become the frame and ret.
CombineEnds(r) ==
    /\ frame' = [labels_x |-> r.labels_x, labels_y |-> r.labels_y]
    /\ ret' = r.ret
    /\ pc' = "done"
    /\ UNCHANGED <<op, args>>

PreserveObjects ==
    /\ pc = "call"
    /\ op = "preserve_objects"
    /\ \E r \in {preserve_objects(args.labels_x, args.labels_y)} : CombineEnds(r)

DiscardObjects ==
    /\ pc = "call"
    /\ op = "discard_objects"
    /\ \E r \in {discard_objects(args.labels_x, args.labels_y)} : CombineEnds(r)

MergeObjects ==
    /\ pc = "call"
    /\ op = "merge_objects"
    /\ \E u \in {ResolveUndisputed(args.labels_x, ShiftedLabels(args.labels_x, args.labels_y))} :
         \E nearest \in NearestSeedImages(u.labels_x) :
            \E r \in {merge_objects(args.labels_x, args.labels_y, nearest)} : CombineEnds(r)

SegmentObjects ==
    /\ pc = "call"
    /\ op = "segment_objects"
    /\ \E u \in {ResolveUndisputed(args.labels_x, ShiftedLabels(args.labels_x, args.labels_y))} :
         \E nearest \in NearestSeedImages(SegmentSeeds(u.labels_x, u.labels_y)) :
            \E r \in {segment_objects(args.labels_x, args.labels_y, nearest)} : CombineEnds(r)

(***************************************************************************)
(* filter_on_size.  The sizes are diameters in half pixels.                *)
(***************************************************************************)
\* The largest size of a call, in half pixels.
MaxSizeHalves == 4

Sizes == {Frac(k, 2) : k \in 0..MaxSizeHalves}

\* numpy.pi as a fraction; 355/113 and numpy.pi compare alike with every
\* ratio of an area to a squared size of the model.
Pi == Frac(355, 113)

\* numpy.pi * (size * size) / 4
AllowedArea(size) == FMul(FMul(Pi, FMul(size, size)), Frac(1, 4))

\* Lines 404..409: areas[l], the number of pixels with label l.
AreaOf(labeled_image, l) == Cardinality({p \in Pix : labeled_image[p] = l})

\* area_image < min_allowed_area
TooSmall(area, min_size) ==
    FLeq(FInt(area), AllowedArea(min_size)) /\ FInt(area) # AllowedArea(min_size)

\* Mutant: no object is too large.
TooLargeNever(area, max_size) == FALSE

\* area_image > max_allowed_area
TooLarge(area, max_size) ==
    FLeq(AllowedArea(max_size), FInt(area)) /\ FInt(area) # AllowedArea(max_size)

\* labeled_image[area_image < min_allowed_area] = 0 on the working copy.
SmallRemoved(labeled_image, min_size) ==
    [p \in Pix |-> IF TooSmall(AreaOf(labeled_image, labeled_image[p]), min_size)
                   THEN 0 ELSE labeled_image[p]]

\* labeled_image[area_image > max_allowed_area] = 0, with the areas of the
\* image before the small objects were removed.
LargeRemoved(working, labeled_image, max_size) ==
    [p \in Pix |-> IF TooLarge(AreaOf(labeled_image, labeled_image[p]), max_size)
                   THEN 0 ELSE working[p]]

\* filter_on_size: the caller's array after the call and the result.  The
\* function works on labeled_image.copy().
filter_on_size(labeled_image, min_size, max_size, return_only_small) ==
    CHOOSE r \in
        {[labeled_image |-> labeled_image,
          ret |-> [kind |-> "returned", error |-> "",
                   value |-> IF ImageMax(labeled_image) > 0
                             THEN IF return_only_small
                                  THEN <<LargeRemoved(small_removed_labels, labeled_image, max_size),
                                         small_removed_labels>>
                                  ELSE LargeRemoved(small_removed_labels, labeled_image, max_size)
                             ELSE IF return_only_small
                                  THEN <<labeled_image, labeled_image>>
                                  ELSE labeled_image]] :
            small_removed_labels \in {SmallRemoved(labeled_image, min_size)}} : TRUE

FilterSizeArgs ==
    [labeled_image : LabelImages, min_size : Sizes, max_size : Sizes,
     return_only_small : BOOLEAN]

FilterOnSize ==
    /\ pc = "call"
    /\ op = "filter_on_size"
    /\ \E r \in {filter_on_size(args.labeled_image, args.min_size, args.max_size,
                                args.return_only_small)} :
           /\ frame' = [labeled_image |-> r.labeled_image]
           /\ ret' = r.ret
    /\ pc' = "done"
    /\ UNCHANGED <<op, args>>

(***************************************************************************)
(* filter_on_border.  The functions that look at rows and columns run on    *)
(* square images of Side rows and Side columns; a pixel is <<row, column>>. *)
(***************************************************************************)
\* The number of rows, and of columns, of a two-dimensional image.
Side == 4

Rows == 1..Side

Grid == Rows \X Rows

\* Two-dimensional label images: at most two pixels belong to objects.
GridImages ==
    {[g \in Grid |-> IF g = a THEN la ELSE IF g = b THEN lb ELSE 0] :
        a \in Grid, b \in Grid, la \in Labels, lb \in Labels}

\* Two-dimensional masks: the pixels of a window of rows and columns (no
\* pixel when the window is empty).
GridMasks ==
    {[g \in Grid |-> g[1] \in r1..r2 /\ g[2] \in c1..c2] :
        r1 \in Rows, r2 \in Rows, c1 \in Rows, c2 \in Rows}

\* numpy.max(labeled_image)
GridMax(labeled_image) ==
    CHOOSE v \in {labeled_image[g] : g \in Grid} : \A h \in Grid : labeled_image[h] <= v

\* How many pixels of a line of the image carry the label.
CountIn(labeled_image, line, l) == Cardinality({g \in line : labeled_image[g] = l})

\* The histogram of the labels of row 0, column 0, the last row and the
\* last column, one after the other (a corner is counted twice).
BorderHistogram(labeled_image) ==
    [l \in 0..GridMax(labeled_image) |->
        CountIn(labeled_image, {g \in Grid : g[1] = 1}, l)
        + CountIn(labeled_image, {g \in Grid : g[2] = 1}, l)
        + CountIn(labeled_image, {g \in Grid : g[1] = Side}, l)
        + CountIn(labeled_image, {g \in Grid : g[2] = Side}, l)]

\* The 4-connected neighbours of a pixel, some of them outside the image.
Neighbours4(g) ==
    {<<g[1] - 1, g[2]>>, <<g[1] + 1, g[2]>>, <<g[1], g[2] - 1>>, <<g[1], g[2] + 1>>}

\* scipy.ndimage.binary_erosion(mask): the default structuring element is
\* the 4-connected cross and the pixels outside the image count as False.
binary_erosion(mask) ==
    [g \in Grid |-> mask[g] /\ \A h \in Neighbours4(g) : h \in Grid /\ mask[h]]

\* numpy.logical_and(numpy.logical_not(binary_erosion(mask)), mask)
MaskBorder(mask) == {g \in Grid : mask[g] /\ ~binary_erosion(mask)[g]}

\* The histogram of labeled_image[mask_border].
MaskBorderHistogram(labeled_image, mask) ==
    [l \in 0..GridMax(labeled_image) |-> CountIn(labeled_image, MaskBorder(mask), l)]

\* any(histogram[1:] > 0)
AnyObjectCounted(histogram) == \E l \in DOMAIN histogram : l >= 1 /\ histogram[l] > 0

\* labeled_image[histogram[labeled_image] > 0] = 0
HistogramZeroed(labeled_image, histogram) ==
    [g \in Grid |-> IF histogram[labeled_image[g]] > 0 THEN 0 ELSE labeled_image[g]]

\* The mask is consulted only when no object touches the border of the
\* image.
filter_on_border_elif(labeled_image, mask) ==
    IF IsNone(mask)
    THEN labeled_image
    ELSE IF AnyObjectCounted(MaskBorderHistogram(labeled_image, mask[1]))
         THEN HistogramZeroed(labeled_image, MaskBorderHistogram(labeled_image, mask[1]))
         ELSE labeled_image

filter_on_border(labeled_image, mask) ==
    IF AnyObjectCounted(BorderHistogram(labeled_image))
    THEN HistogramZeroed(labeled_image, BorderHistogram(labeled_image))
    ELSE filter_on_border_elif(labeled_image, mask)

FilterBorderArgs ==
    [labeled_image : GridImages, mask : {None} \cup {Some(m) : m \in GridMasks}]

FilterOnBorder ==
    /\ pc = "call"
    /\ op = "filter_on_border"
    /\ ret' = filter_on_border(args.labeled_image, args.mask)
    /\ frame' = [labeled_image |-> args.labeled_image]
    /\ pc' = "done"
    /\ UNCHANGED <<op, args>>

(***************************************************************************)
(* expand and expand_until_touching                                        *)
(***************************************************************************)
\* The square of the Euclidean distance of two pixels.
Dist2(g, h) == (g[1] - h[1]) * (g[1] - h[1]) + (g[2] - h[2]) * (g[2] - h[2])

\* The pixels of the objects: the zeros of `background`.
ObjectPixels2(labels) == {g \in Grid : labels[g] # 0}

\* The object pixels at the least distance of a pixel.
NearestObjectPixels(labels, g) ==
    {h \in ObjectPixels2(labels) : \A k \in ObjectPixels2(labels) : Dist2(g, h) <= Dist2(g, k)}

\* The pixel of a position in row-major order.
GridAt(k) == <<((k - 1) \div Side) + 1, ((k - 1) % Side) + 1>>

\* The index arrays of the first k pixels in row-major order, each entry
\* one of the pixels allowed at its place.
RECURSIVE IndexArrays(_, _)
IndexArrays(allowed, k) ==
    IF k = 0
    THEN {<<>>}
    ELSE {Append(s, h) : s \in IndexArrays(allowed, k - 1), h \in allowed[k]}

\* The index arrays (i, j) scipy.ndimage.distance_transform_edt may return
\* for an image with an object: each pixel is given a nearest object pixel,
\* any of them when several are equally near.
NearestIndexArrays(labels) ==
    CHOOSE r \in {{[g \in Grid |-> s[(g[1] - 1) * Side + g[2]]] : s \in IndexArrays(a, Side * Side)} :
                    a \in {[k \in 1..(Side * Side) |-> NearestObjectPixels(labels, GridAt(k))]}} : TRUE

\* distances <= distance compares the square roots: the squares are
\* compared here, which orders them in the same way.
expand(labels, distance, i_j) ==
    [g \in Grid |->
        IF labels[g] = 0 /\ Dist2(g, i_j[g]) <= distance * distance
        THEN labels[i_j[g]]
        ELSE labels[g]]

\* numpy.max(labels.shape) is the side of the square image.
expand_until_touching(labels, i_j) == expand(labels, Side, i_j)

ExpandArgs == [labels : GridImages]

\* For an image without object the distance transform has no nearest pixel
\* to report: whatever indices it returns select a 0 of the image, or lie
\* outside of it.
ExpandUntilTouching ==
    /\ pc = "call"
    /\ op = "expand_until_touching"
    /\ IF ObjectPixels2(args.labels) = {}
       THEN \/ ret' = [kind |-> "returned", value |-> args.labels]
            \/ ret' = [kind |-> "raised", value |-> "IndexError"]
       ELSE \E i_j \in NearestIndexArrays(args.labels) :
                ret' = [kind |-> "returned", value |-> expand_until_touching(args.labels, i_j)]
    /\ frame' = [labels |-> args.labels]
    /\ pc' = "done"
    /\ UNCHANGED <<op, args>>

(***************************************************************************)
(* The FlipAndRotate module.  op is the module, args its settings, frame   *)
(* the module's dictionary of the image set list with the images of the    *)
(* group run so far, ret the outcome of the last run.  Only the angle of   *)
(* the rotation is modelled, not the pixels.                               *)
(***************************************************************************)
\* The largest number of images of a group.
MaxImages == 3

ROTATE_NONE == "Do not rotate"

ROTATE_ANGLE == "Enter angle"

ROTATE_COORDINATES == "Enter coordinates"

ROTATE_MOUSE == "Use mouse"

ROTATE_ALL == {ROTATE_NONE, ROTATE_ANGLE, ROTATE_COORDINATES, ROTATE_MOUSE}

IO_INDIVIDUALLY == "Individually"

IO_ONCE == "Only Once"

IO_ALL == {IO_INDIVIDUALLY, IO_ONCE}

C_HORIZONTALLY == "horizontally"

C_VERTICALLY == "vertically"

C_ALL == {C_HORIZONTALLY, C_VERTICALLY}

D_ANGLE == "angle"

\* d.has_key(key)
has_key(d, key) == key \in DOMAIN d

\* The settings of the module: the second pixel lies on an axis through the
\* first one, (0, 0).
FlipSettings ==
    [rotate_choice : ROTATE_ALL, how_often : IO_ALL, angle : {0, 90},
     second_pixel : {[x |-> 0, y |-> 100], [x |-> 100, y |-> 0]},
     horiz_or_vert : C_ALL]

\* What the user does with the dialog: the angle the image was dragged to
\* and the button that closed it.
DialogOutcomes == [angle : {-90, 0, 45}, result : {"ID_OK", "ID_CANCEL"}]

\* np.arctan2(y, x) * 180.0 / np.pi for a point of the positive axes.
arctan2_degrees(y, x) == IF y > 0 THEN 90 ELSE 0

\* The module's dictionary after prepare_group.
prepare_group(settings, d) ==
    IF settings.rotate_choice = ROTATE_MOUSE /\ settings.how_often = IO_ONCE
    THEN [k \in DOMAIN d \cup {D_ANGLE} |-> IF k = D_ANGLE THEN None ELSE d[k]]
    ELSE d

\* The value of the dictionary is returned as it is whenever the key is
\* present.  Otherwise the dialog is shown, and nothing but ID_OK returns
\* an angle.
angle_from_mouse(settings, d, dialog) ==
    IF settings.how_often = IO_ONCE /\ has_key(d, D_ANGLE)
    THEN [asked |-> FALSE, angle |-> d[D_ANGLE]]
    ELSE [asked |-> TRUE,
          angle |-> IF dialog.result = "ID_OK" THEN Some(dialog.angle) ELSE None]

\* The angle of run, None when the code has none.
angle_of_run(settings, d, dialog) ==
    CASE settings.rotate_choice = ROTATE_NONE -> [asked |-> FALSE, angle |-> Some(0)]
      [] settings.rotate_choice = ROTATE_ANGLE -> [asked |-> FALSE, angle |-> Some(settings.angle)]
      [] settings.rotate_choice = ROTATE_COORDINATES ->
            [asked |-> FALSE,
             angle |-> IF settings.horiz_or_vert = C_VERTICALLY
                       THEN Some(-arctan2_degrees(settings.second_pixel.y, settings.second_pixel.x))
                       ELSE Some(arctan2_degrees(settings.second_pixel.x, settings.second_pixel.y))]
      [] settings.rotate_choice = ROTATE_MOUSE -> angle_from_mouse(settings, d, dialog)

\* angle * np.pi / 180.0 raises TypeError for the angle None.
run(settings, d, dialog) ==
    CHOOSE r \in {IF IsNone(a.angle)
                  THEN [kind |-> "raised", error |-> "TypeError", asked |-> a.asked, angle |-> None]
                  ELSE [kind |-> "returned", error |-> "", asked |-> a.asked, angle |-> a.angle] :
                     a \in {angle_of_run(settings, d, dialog)}} : TRUE

\* A group starts: the pipeline calls prepare_group before the group's
\* first image.
PrepareGroup ==
    /\ op = "FlipAndRotate"
    /\ pc = "start" \/ (pc = "group" /\ frame.image >= 1)
    /\ frame' = [d |-> prepare_group(args, frame.d), image |-> 0, used |-> <<>>]
    /\ pc' = "group"
    /\ ret' = <<>>
    /\ UNCHANGED <<op, args>>

\* The next image of the group runs; run writes nothing into the
\* dictionary.
Run ==
    /\ op = "FlipAndRotate"
    /\ pc = "group"
    /\ frame.image < MaxImages
    /\ \E dialog \in DialogOutcomes :
          \E r \in {run(args, frame.d, dialog)} :
              /\ ret' = r
              /\ frame' = [frame EXCEPT !.image = @ + 1, !.used = Append(@, r.angle)]
    /\ UNCHANGED <<op, args, pc>>

(***************************************************************************)
(* get_skeleton_points, called with an object set (obj.shape and           *)
(* obj.get_labels() exist).  The images have two rows of SkelCols columns;  *)
(* a pixel is <<row, column>>, both counted from 1.                        *)
(***************************************************************************)
\* The number of columns of the label image of an object set.
SkelCols == 2

SkelGrid == (1..2) \X (1..SkelCols)

\* The label plane of obj.get_labels(): the function looks at the pixels of
\* the objects only, not at which object they belong to.
SkelObjects == [SkelGrid -> {0, 1}]

\* Lines 279..289: the skeleton of every object lies inside the object.
TotalSkeletons(obj) == SUBSET {g \in SkelGrid : obj[g] > 0}

\* centrosome.propagate.propagate: every skeleton pixel gets the number of
\* a branch point or end point and its distance from it.
BranchIds == {1, 2}

PropagationDistances == {0, 1}

\* The position of a pixel in row-major order, from 0.
RowMajor(g) == (g[1] - 1) * SkelCols + (g[2] - 1)

\* The pixels of the image in row-major order.
SkelGridSeq ==
    [k \in 1..(2 * SkelCols) |-> <<((k - 1) \div SkelCols) + 1, ((k - 1) % SkelCols) + 1>>]

\* Whether a pixel belongs to the skeleton.
InSkeleton(total_skel, g) == g \in total_skel

\* i, j = numpy.where(total_skel): the skeleton pixels in row-major order.
where(total_skel) == SelectSeq(SkelGridSeq, LAMBDA g : InSkeleton(total_skel, g))

\* The lexicographic order of two keys.
RECURSIVE KeyBefore(_, _)
KeyBefore(x, y) ==
    /\ Len(x) > 0
    /\ \/ Head(x) < Head(y)
       \/ Head(x) = Head(y) /\ KeyBefore(Tail(x), Tail(y))

\* numpy.lexsort: the indices (from 1) of the keys in ascending order.
lexsort(keys) ==
    [k \in 1..Len(keys) |->
        CHOOSE a \in 1..Len(keys) :
            Cardinality({b \in 1..Len(keys) : KeyBefore(keys[b], keys[a])}) = k - 1]

\* Mutant: the first num indices instead of evenly spaced ones.
arange_int(stop, num) == [k \in 1..num |-> k - 1]

\* numpy.linspace(0, stop, num).astype(int)
linspace_int(stop, num) ==
    [k \in 1..num |-> IF num = 1 THEN 0 ELSE ((k - 1) * stop) \div (num - 1)]

\* The keys of numpy.lexsort((j, i, distances[i, j], ts_labels[i, j])), the
\* first to compare first.
SkeletonKeys(ij, ts_labels, distances) ==
    [k \in 1..Len(ij) |-> <<ts_labels[ij[k]], distances[ij[k]], ij[k][1], ij[k][2]>>]

\* i[order], j[order] for order[linspace(...)] of lines 317..320, with the
\* indices of order counted from 1.
Decimated(ij, order, max_points) ==
    [k \in 1..max_points |-> ij[order[linspace_int(Len(order) - 1, max_points)[k] + 1]]]

\* The pixels (i, j) returned for the skeleton total_skel and the ts_labels
\* and distances that propagate returns.
get_skeleton_points(obj, max_points, total_skel, ts_labels, distances) ==
    IF Cardinality(total_skel) = 0
    THEN <<>>
    ELSE IF Cardinality(total_skel) > max_points
    THEN CHOOSE r \in
            UNION {{Decimated(ij, order, max_points) :
                       order \in {lexsort(keys) :
                                    keys \in {SkeletonKeys(ij, ts_labels, distances)}}} :
                   ij \in {where(total_skel)}} : TRUE
    ELSE where(total_skel)

SkeletonArgs == [obj : SkelObjects, max_points : 0..(2 * SkelCols)]

GetSkeletonPoints ==
    /\ pc = "call"
    /\ op = "get_skeleton_points"
    /\ \E total_skel \in TotalSkeletons(args.obj) :
          \E ts_labels \in [total_skel -> BranchIds], distances \in [total_skel -> PropagationDistances] :
              /\ frame' = [total_skel |-> total_skel, ts_labels |-> ts_labels,
                           distances |-> distances]
              /\ ret' = get_skeleton_points(args.obj, args.max_points, total_skel,
                                            ts_labels, distances)
    /\ pc' = "done"
    /\ UNCHANGED <<op, args>>

(***************************************************************************)
(* The random numbers of separate_neighboring_objects (shape mode) and of  *)
(* get_kmeans_points.  op is the process, args the call that is made       *)
(* twice, ret the results of its calls so far; frame holds the state of    *)
(* the process-wide generator of numpy.random, the state the generator had *)
(* before each of the calls, and what the library functions have returned  *)
(* so far.                                                                 *)
(***************************************************************************)
\* The largest state of a generator.
MaxState == 2

GeneratorStates == 0..MaxState

\* numpy.random.seed(s), RandomState.seed(s): the state the seed sets.
seed(s) == s % (MaxState + 1)

\* numpy.random.uniform(0, 0.001, shape) in state g: the values drawn, in
\* units of the generator, and the state the generator is left in.
uniform(g) ==
    [values |-> [p \in Pix |-> (g + p) % (MaxState + 1)],
     state |-> (g + 1) % (MaxState + 1)]

\* Mutant: the jitter is drawn from the generator as the call finds it.
jitter_state_unseeded(generator) == generator

\* Line 545, numpy.random.seed(0): the state line 546 draws the jitter in.
jitter_state(generator) == seed(0)

\* The library functions are deterministic: for an input they have met
\* they return what they returned before, for a new one any of the outputs
\* possible.
LibraryOutputs(library, input, possible) ==
    IF \E k \in 1..Len(library) : library[k].input = input
    THEN {library[k].output : k \in {x \in 1..Len(library) : library[x].input = input}}
    ELSE possible

Remembered(library, input, output) ==
    IF \E k \in 1..Len(library) : library[k].input = input
    THEN library
    ELSE Append(library, [input |-> input, output |-> output])

\* The calls in shape mode: the other parameters have their defaults.
ShapeArgs ==
    [labeled_image : LabelImages, unclump_method : {"shape", "Shape"},
     watershed_method : {"shape", "propagate"}]

\* What get_maxima and the growth can return for a jittered distance
\* transform.
ShapeOutcomes(a) ==
    UNION {{[maxima_image |-> m, grown |-> g] :
                g \in GrownImages(a.labeled_image, label([p \in Pix |-> m[p] # 0]),
                                  a.watershed_method)} :
           m \in MaximaImages(a.labeled_image)}

\* create_ijv: a row (i, j, label) for every pixel of an object.
create_ijv(objects) ==
    SelectSeq([p \in 1..NPix |-> <<0, p - 1, objects[p]>>], LAMBDA t : t[3] > 0)

\* numpy.sum of the elements of the rows.
RECURSIVE SumRows(_)
SumRows(rows) ==
    IF Len(rows) = 0 THEN 0 ELSE SumSeq(Head(rows)) + SumRows(Tail(rows))

\* random_state.seed(ijv.astype(int).flatten()): the state is set by the
\* data.
seed_of_data(ijv) == seed(SumRows(ijv))

\* The cluster centers KMeans can return.
KMeansOutcomes(max_points) == [1..max_points -> Pix]

\* get_kmeans_points for the label images of one row, given the cluster
\* centers of KMeans: line 337 stacks the rows (i, j, label) of
\* src_objects and the label image dest_objects itself, which numpy accepts
\* only for an image of 3 columns.
get_kmeans_points(src_objects, dest_objects, max_points, centers) ==
    IF Len(dest_objects) # 3
    THEN [kind |-> "raised", error |-> "ValueError", value |-> <<>>]
    ELSE IF Len(create_ijv(src_objects)) + 1 <= max_points
    THEN [kind |-> "returned", error |-> "",
          value |-> [k \in 1..(Len(create_ijv(src_objects)) + 1) |->
                        <<Append(create_ijv(src_objects), dest_objects)[k][1],
                          Append(create_ijv(src_objects), dest_objects)[k][2]>>]]
    ELSE IF max_points < 1
    THEN [kind |-> "raised", error |-> "ValueError", value |-> <<>>]
    ELSE [kind |-> "returned", error |-> "",
          value |-> [k \in 1..max_points |-> <<0, centers[k] - 1>>]]

KMeansArgs ==
    [src_objects : [Pix -> {0, 1}], dest_objects : [Pix -> {0, 1}],
     max_points : 0..MaxPoints]

\* The call reaches KMeans.
ReachesKMeans(a) ==
    /\ Len(a.dest_objects) = 3
    /\ Len(create_ijv(a.src_objects)) + 1 > a.max_points
    /\ a.max_points >= 1

\* What a call leaves behind: its result, the generator and the outputs of
\* the library.
CallEnds(result, generator, library) ==
    /\ ret' = Append(ret, result)
    /\ frame' = [generator |-> generator, library |-> library,
                 before |-> Append(frame.before, frame.generator)]
    /\ pc' = IF pc = "first" THEN "second" ELSE "done"
    /\ UNCHANGED <<op, args>>

\* A call of separate_neighboring_objects in shape mode: the generator is
\* seeded, the jitter drawn, and the maxima and the growth work on the
\* jittered distances.
SeparateInShapeMode ==
    /\ op = "process"
    /\ pc \in {"first", "second"}
    /\ args.f = "separate_neighboring_objects"
    /\ \E u \in {uniform(jitter_state(frame.generator))} :
          \E out \in LibraryOutputs(frame.library, [a |-> args.a, jitter |-> u.values],
                                    ShapeOutcomes(args.a)) :
              CallEnds(separate_neighboring_objects(args.a.labeled_image,
                           args.a.unclump_method, args.a.watershed_method,
                           min_size_full_resolution, FALSE, maxima_suppression_size_default,
                           FALSE, FALSE, out.maxima_image, out.grown).ret,
                       u.state,
                       Remembered(frame.library, [a |-> args.a, jitter |-> u.values], out))

\* A call of get_kmeans_points: a RandomState of its own is seeded with the
\* data, the process-wide generator is not used.
GetKMeansPoints ==
    /\ op = "process"
    /\ pc \in {"first", "second"}
    /\ args.f = "get_kmeans_points"
    /\ \E input \in {[ijv |-> Append(create_ijv(args.a.src_objects), args.a.dest_objects),
                      max_points |-> args.a.max_points,
                      random_state |-> seed_of_data(Append(create_ijv(args.a.src_objects),
                                                           args.a.dest_objects))]} :
          \E centers \in IF ReachesKMeans(args.a)
                         THEN LibraryOutputs(frame.library, input,
                                             KMeansOutcomes(args.a.max_points))
                         ELSE {<<>>} :
              CallEnds(get_kmeans_points(args.a.src_objects, args.a.dest_objects,
                                         args.a.max_points, centers),
                       frame.generator,
                       IF ReachesKMeans(args.a)
                       THEN Remembered(frame.library, input, centers)
                       ELSE frame.library)

\* Other code of the process draws from the process-wide generator or
\* seeds it, calls of the two functions with other arguments included.
OtherUseOfGenerator ==
    /\ op = "process"
    /\ pc \in {"first", "second"}
    /\ \E g \in GeneratorStates \ {frame.generator} :
          frame' = [frame EXCEPT !.generator = g]
    /\ UNCHANGED <<op, args, pc, ret>>

(***************************************************************************)
(* Specifications: a call is drawn (the function and its arguments), then  *)
(* the function runs.                                                      *)
(***************************************************************************)
InitCall(f, Args) ==
    /\ op = f
    /\ args \in Args
    /\ pc = "call"
    /\ frame = <<>>
    /\ ret = <<>>

InitRand == InitCall("compute_rand_index", RandArgs)

NextRand == ComputeRandIndex

SpecRand == InitRand /\ [][NextRand]_vars

InitEmd == InitCall("compute_earth_movers_distance", EmdArgs)

NextEmd == ComputeEarthMoversDistance

SpecEmd == InitEmd /\ [][NextEmd]_vars

InitOverlap == InitCall("measure_image_overlap", OverlapArgs)

NextOverlap == MeasureImageOverlap

SpecOverlap == InitOverlap /\ [][NextOverlap]_vars

InitSeparate == InitCall("separate_neighboring_objects", SeparateArgs)

NextSeparate == SeparateNeighboringObjects

SpecSeparate == InitSeparate /\ [][NextSeparate]_vars

InitWeights == InitCall("get_weights", WeightsArgs)

NextWeights == GetWeights

SpecWeights == InitWeights /\ [][NextWeights]_vars

InitCombine ==
    \E f \in {"merge_objects", "preserve_objects", "discard_objects", "segment_objects"} :
        InitCall(f, CombineArgs)

NextCombine ==
    \/ MergeObjects
    \/ PreserveObjects
    \/ DiscardObjects
    \/ SegmentObjects

SpecCombine == InitCombine /\ [][NextCombine]_vars

InitFilterSize == InitCall("filter_on_size", FilterSizeArgs)

NextFilterSize == FilterOnSize

SpecFilterSize == InitFilterSize /\ [][NextFilterSize]_vars

InitFilterBorder == InitCall("filter_on_border", FilterBorderArgs)

NextFilterBorder == FilterOnBorder

SpecFilterBorder == InitFilterBorder /\ [][NextFilterBorder]_vars

InitExpand == InitCall("expand_until_touching", ExpandArgs)

NextExpand == ExpandUntilTouching

SpecExpand == InitExpand /\ [][NextExpand]_vars

InitFlip ==
    /\ op = "FlipAndRotate"
    /\ args \in FlipSettings
    /\ pc = "start"
    /\ frame = [d |-> <<>>, image |-> 0, used |-> <<>>]
    /\ ret = <<>>

NextFlip ==
    \/ PrepareGroup
    \/ Run

SpecFlip == InitFlip /\ [][NextFlip]_vars

InitSkeleton == InitCall("get_skeleton_points", SkeletonArgs)

NextSkeleton == GetSkeletonPoints

SpecSkeleton == InitSkeleton /\ [][NextSkeleton]_vars

InitRandom ==
    /\ op = "process"
    /\ \/ args \in [f : {"separate_neighboring_objects"}, a : ShapeArgs]
       \/ args \in [f : {"get_kmeans_points"}, a : KMeansArgs]
    /\ pc = "first"
    /\ frame \in [generator : GeneratorStates, library : {<<>>}, before : {<<>>}]
    /\ ret = <<>>

NextRandom ==
    \/ SeparateInShapeMode
    \/ GetKMeansPoints
    \/ OtherUseOfGenerator

SpecRandom == InitRandom /\ [][NextRandom]_vars

\* Any of the calls.
Init ==
    \/ InitRand
    \/ InitEmd
    \/ InitOverlap
    \/ InitSeparate
    \/ InitWeights
    \/ InitCombine
    \/ InitFilterSize
    \/ InitFilterBorder
    \/ InitExpand
    \/ InitFlip
    \/ InitSkeleton
    \/ InitRandom

Next ==
    \/ ComputeRandIndex
    \/ ComputeEarthMoversDistance
    \/ MeasureImageOverlap
    \/ SeparateNeighboringObjects
    \/ GetWeights
    \/ MergeObjects
    \/ PreserveObjects
    \/ DiscardObjects
    \/ SegmentObjects
    \/ FilterOnSize
    \/ FilterOnBorder
    \/ ExpandUntilTouching
    \/ PrepareGroup
    \/ Run
    \/ GetSkeletonPoints
    \/ SeparateInShapeMode
    \/ GetKMeansPoints
    \/ OtherUseOfGenerator

Spec == Init /\ [][Next]_vars

(***************************************************************************)
(* Properties of compute_rand_index (checked under SpecRand)               *)
(***************************************************************************)
RandDone == op = "compute_rand_index" /\ pc = "done"

\* The selected pixels with a foreground label.
SelectedForeground(labels, mask) == {p \in Selected(mask) : labels[p] > 0}

\* Some two selected pixels are in the same set, some two in different sets.
SomeShare(labels, mask) ==
    \E p, q \in Selected(mask) : p # q /\ labels[p] = labels[q]

SomeDiffer(labels, mask) ==
    \E p, q \in Selected(mask) : labels[p] # labels[q]

SelfCompared ==
    /\ RandDone
    /\ args.test_labels = args.ground_truth_labels
    /\ Cardinality(SelectedForeground(args.test_labels, args.mask)) >= 2

\* C4 as stated: a label image compared with itself under a mask selecting at
\* least 2 foreground pixels scores rand_index = 1 and adjusted_rand_index = 1.
C4_SelfScoresOne ==
    SelfCompared =>
        /\ ret.value.rand_index = FInt(1)
        /\ ret.value.adjusted_rand_index = FInt(1)

\* C4 amended: a label image compared with itself under a mask selecting at
\* least 2 foreground pixels scores rand_index = 1; adjusted_rand_index is 1
\* when some two selected pixels share a label and some two have different
\* labels, and NaN otherwise (one label over all selected pixels, or every
\* selected pixel with a label of its own).
C4_SelfScoresOneOrNaN ==
    SelfCompared =>
        /\ ret.kind = "returned"
        /\ ret.value.rand_index = FInt(1)
        /\ IF SomeShare(args.test_labels, args.mask) /\ SomeDiffer(args.test_labels, args.mask)
           THEN ret.value.adjusted_rand_index = FInt(1)
           ELSE IsNaN(ret.value.adjusted_rand_index)

\* C4 witness: a self comparison with two pixels sharing a label and a third
\* pixel labelled differently has run and scored 1 and 1.
C4_Witness ==
    /\ SelfCompared
    /\ SomeShare(args.test_labels, args.mask)
    /\ SomeDiffer(args.test_labels, args.mask)
    /\ ret.value.adjusted_rand_index = FInt(1)

\* C9: when the mask selects no pixel, compute_rand_index returns NaN for
\* rand_index and for adjusted_rand_index, whatever the two label images.
C9_EmptyMaskNaN ==
    (RandDone /\ Selected(args.mask) = {}) =>
        /\ ret.kind = "returned"
        /\ IsNaN(ret.value.rand_index)
        /\ IsNaN(ret.value.adjusted_rand_index)

\* C9 witness: a call with an all-false mask and two different, non-empty
\* label images has returned.
C9_Witness ==
    /\ RandDone
    /\ Selected(args.mask) = {}
    /\ args.test_labels # args.ground_truth_labels
    /\ \E p \in Pix : args.test_labels[p] > 0
    /\ \E p \in Pix : args.ground_truth_labels[p] > 0
    /\ IsNaN(ret.value.rand_index)

\* C10 as stated: whenever the mask selects at least one pixel, rand_index
\* and adjusted_rand_index both lie in [0, 1].
C10_BothInUnit ==
    (RandDone /\ HasSelected(args.mask)) =>
        /\ InUnit(ret.value.rand_index)
        /\ InUnit(ret.value.adjusted_rand_index)

\* Every selected pixel is in one set, or each is in a set of its own.
OneSet(labels, mask) == ~SomeDiffer(labels, mask)

AllSingletons(labels, mask) == ~SomeShare(labels, mask)

\* C10 amended: when the mask selects at least two pixels, rand_index lies in
\* [0, 1] and adjusted_rand_index lies in [-1/2, 1], except that it is NaN
\* exactly when both labelings put all selected pixels in one set or both put
\* every selected pixel in a set of its own; when the mask selects exactly
\* one pixel both values are NaN.
C10_RandInUnitAdjustedBounded ==
    (RandDone /\ HasSelected(args.mask)) =>
        IF Cardinality(Selected(args.mask)) = 1
        THEN IsNaN(ret.value.rand_index) /\ IsNaN(ret.value.adjusted_rand_index)
        ELSE /\ InUnit(ret.value.rand_index)
             /\ IF \/ OneSet(args.test_labels, args.mask)
                      /\ OneSet(args.ground_truth_labels, args.mask)
                   \/ AllSingletons(args.test_labels, args.mask)
                      /\ AllSingletons(args.ground_truth_labels, args.mask)
                THEN IsNaN(ret.value.adjusted_rand_index)
                ELSE /\ FLeq(Frac(-1, 2), ret.value.adjusted_rand_index)
                     /\ FLeq(ret.value.adjusted_rand_index, FInt(1))

\* C10 witness: two labelings of at least two selected pixels have been
\* compared and the adjusted index is negative.
C10_Witness ==
    /\ RandDone
    /\ Cardinality(Selected(args.mask)) >= 2
    /\ IsFinite(ret.value.adjusted_rand_index)
    /\ ret.value.adjusted_rand_index.n < 0
    /\ InUnit(ret.value.rand_index)

(***************************************************************************)
(* Properties of compute_earth_movers_distance (checked under SpecEmd)     *)
(***************************************************************************)
EmdDone == op = "compute_earth_movers_distance" /\ pc = "done"

\* C5 as stated: for a label image L with a foreground pixel,
\* compute_earth_movers_distance(L, L) with its default parameters returns
\* the integer 0 and does not raise.
C5_SelfDistanceZero ==
    (/\ EmdDone
     /\ args.decimation_method = decimation_method_default
     /\ args.max_distance = max_distance_default
     /\ args.max_points = max_points_default
     /\ ~args.penalize_missing
     /\ args.src_objects = args.dest_objects
     /\ \E p \in Pix : args.src_objects[p] > 0) =>
        /\ ret.kind = "returned"
        /\ ret.value = 0

\* The number of foreground pixels of a label image.
ForegroundCount(objects) == Cardinality({p \in Pix : objects[p] > 0})

\* C11 as stated: if either object set has no foreground,
\* compute_earth_movers_distance returns 0 without penalize_missing and
\* (foreground pixel count of the other set) * max_distance with it, and
\* runs neither point selection nor the transport solver.
C11_EmptyReturnsPenalty ==
    (/\ EmdDone
     /\ args.max_distance > 1
     /\ \/ ForegroundCount(args.src_objects) = 0
        \/ ForegroundCount(args.dest_objects) = 0) =>
        /\ ret.kind = "returned"
        /\ frame.calls = <<>>
        /\ ret.value = IF args.penalize_missing
                       THEN (ForegroundCount(args.src_objects)
                             + ForegroundCount(args.dest_objects)) * args.max_distance
                       ELSE 0

\* The part of C11 the code keeps: without penalize_missing an empty object
\* set makes the call return 0 before any point selection.
EmptyUnpenalizedReturnsZero ==
    (/\ EmdDone
     /\ args.max_distance > 1
     /\ ~args.penalize_missing
     /\ \/ ForegroundCount(args.src_objects) = 0
        \/ ForegroundCount(args.dest_objects) = 0) =>
        /\ ret.kind = "returned"
        /\ frame.calls = <<>>
        /\ ret.value = 0

\* C12 as stated: with the same parameters the distance from A to B is the
\* distance from B to A: both calls return, and return the same value.
C12_Symmetric ==
    (EmdDone /\ args.max_distance > 1) =>
        \E swapped \in {compute_earth_movers_distance(args.dest_objects,
                            args.src_objects, args.decimation_method,
                            args.max_distance, args.max_points,
                            args.penalize_missing)} :
            /\ ret.kind = "returned"
            /\ swapped.kind = "returned"
            /\ swapped.value = ret.value

\* C13 as stated: for two objects of one pixel each, at distance d below
\* max_distance, compute_earth_movers_distance returns d rounded (in a row
\* of pixels d is an integer).
C13_SinglePixelsDistance ==
    (/\ EmdDone
     /\ args.max_distance = max_distance_default
     /\ ~args.penalize_missing
     /\ ForegroundCount(args.src_objects) = 1
     /\ ForegroundCount(args.dest_objects) = 1) =>
        /\ ret.kind = "returned"
        /\ \E p, q \in Pix : /\ args.src_objects[p] > 0
                             /\ args.dest_objects[q] > 0
                             /\ ret.value = Abs(p - q)

\* C15 as stated: decimation_method "k_means" selects get_kmeans_points,
\* "skeleton" selects get_skeleton_points, and any other value is rejected
\* before a point selection runs.
C15_ClosedDecimationMethods ==
    (/\ EmdDone
     /\ args.max_distance > 1
     /\ ForegroundCount(args.src_objects) > 0
     /\ ForegroundCount(args.dest_objects) > 0) =>
        CASE args.decimation_method = "k_means" ->
                 frame.calls[1] = "get_kmeans_points"
          [] args.decimation_method = "skeleton" ->
                 frame.calls[1] = "get_skeleton_points"
          [] OTHER -> ret.kind = "raised" /\ frame.calls = <<>>

(***************************************************************************)
(* Properties of measure_image_overlap (checked under SpecOverlap)         *)
(***************************************************************************)
\* A call of measure_image_overlap with images of 2 dimensions has ended.
OverlapDone == op = "measure_image_overlap" /\ pc = "done" /\ args.ndim = 2

\* A call of measure_image_overlap with images of 3 dimensions has ended.
OverlapStackDone == op = "measure_image_overlap" /\ pc = "done" /\ args.ndim = 3

\* The arguments read pixel by pixel, and the confusion counts taken from
\* them directly.
BooleanGroundTruth == \A p \in Pix : args.ground_truth_image[p] \in {0, 1}

ArgMask(p) == IF IsNone(args.mask) THEN TRUE ELSE args.mask[1][p]

ArgG(p) == args.ground_truth_image[p] = 1

ArgT(p) == args.test_image[p]

TP == Cardinality({p \in Pix : ArgMask(p) /\ ArgT(p) /\ ArgG(p)})

FP == Cardinality({p \in Pix : ArgMask(p) /\ ArgT(p) /\ ~ArgG(p)})

FN == Cardinality({p \in Pix : ArgMask(p) /\ ~ArgT(p) /\ ArgG(p)})

TN == Cardinality({p \in Pix : ArgMask(p) /\ ~ArgT(p) /\ ~ArgG(p)})

\* Every metric of the record m is in [0, 1] and Ffactor is 2PR/(P+R) when
\* P + R > 0 and 0 otherwise.
MetricsInUnit(m) ==
    /\ \A k \in MetricNames : InUnit(m[k])
    /\ IF FAdd(m.Precision, m.Recall).n > 0
       THEN FMul(m.Ffactor, FAdd(m.Precision, m.Recall))
                = FMul(FInt(2), FMul(m.Precision, m.Recall))
       ELSE m.Ffactor = FInt(0)

\* C2 as stated: for every boolean ground truth, test image and mask,
\* measure_image_overlap returns its seven metrics, all in [0, 1], with
\* Ffactor = 2PR/(P+R) when P + R > 0 and 0 otherwise.
C2_ReturnsMetricsInUnit ==
    (OverlapDone /\ BooleanGroundTruth) =>
        /\ ret.kind = "returned"
        /\ MetricsInUnit(ret.value)

\* The metrics measure_image_overlap has computed by line 83 are in [0, 1]
\* with Ffactor as above, whether or not the call goes on to return them.
ComputedMetricsInUnit ==
    (OverlapDone /\ BooleanGroundTruth) => MetricsInUnit(frame.metrics)

\* C3 as stated: measure_image_overlap(G, G) with no mask returns
\* Precision = Recall = Ffactor = TruePosRate = TrueNegRate = 1 and
\* FalsePosRate = FalseNegRate = 0.
C3_IdenticalReturnsPerfect ==
    (/\ OverlapDone
     /\ BooleanGroundTruth
     /\ IsNone(args.mask)
     /\ \A p \in Pix : ArgT(p) = ArgG(p)) =>
        /\ ret.kind = "returned"
        /\ ret.value.Precision = FInt(1)
        /\ ret.value.Recall = FInt(1)
        /\ ret.value.Ffactor = FInt(1)
        /\ ret.value.TruePosRate = FInt(1)
        /\ ret.value.TrueNegRate = FInt(1)
        /\ ret.value.FalsePosRate = FInt(0)
        /\ ret.value.FalseNegRate = FInt(0)

\* Two boolean images with disjoint foregrounds of equal area, no mask.
DisjointEqualArea ==
    /\ OverlapDone
    /\ BooleanGroundTruth
    /\ IsNone(args.mask)
    /\ \A p \in Pix : ~(ArgT(p) /\ ArgG(p))
    /\ Cardinality({p \in Pix : ArgT(p)}) = Cardinality({p \in Pix : ArgG(p)})

C7_ZeroDenominatorDefaults ==
    (OverlapDone /\ BooleanGroundTruth) =>
        /\ ret.error # "ZeroDivisionError"
        /\ \A k \in MetricNames : frame.metrics[k] # ZeroDivision
        /\ frame.metrics.Precision =
              (IF \A p \in Pix : ArgMask(p) => ~ArgT(p)
               THEN FInt(1) ELSE Frac(TP, TP + FP))
        /\ frame.metrics.Recall =
              (IF \A p \in Pix : ArgMask(p) => ~ArgG(p)
               THEN FInt(1) ELSE Frac(TP, TP + FN))
        /\ frame.metrics.TruePosRate =
              (IF \A p \in Pix : ArgMask(p) => ~ArgG(p)
               THEN FInt(1) ELSE Frac(TP, TP + FN))
        /\ frame.metrics.FalseNegRate =
              (IF \A p \in Pix : ArgMask(p) => ~ArgG(p)
               THEN FInt(0) ELSE Frac(FN, TP + FN))
        /\ frame.metrics.TrueNegRate =
              (IF \A p \in Pix : ArgMask(p) => ArgG(p)
               THEN FInt(1) ELSE Frac(TN, FP + TN))
        /\ frame.metrics.FalsePosRate =
              (IF \A p \in Pix : ArgMask(p) => ArgG(p)
               THEN FInt(0) ELSE Frac(FP, FP + TN))

\* C7 witness: a call whose test image has no masked positive pixel while
\* the ground truth has masked positive pixels only has computed the
\* defaults Precision = 1, TrueNegRate = 1 and FalsePosRate = 0.
C7_Witness ==
    /\ OverlapDone
    /\ BooleanGroundTruth
    /\ \A p \in Pix : ArgMask(p) => (~ArgT(p) /\ ArgG(p))
    /\ \E p \in Pix : ArgMask(p)
    /\ frame.metrics.Precision = FInt(1)
    /\ frame.metrics.TrueNegRate = FInt(1)
    /\ frame.metrics.Recall = FInt(0)

\* C8: measure_image_overlap raises ValueError, before it computes any
\* count, exactly when ground_truth_image holds a value other than 0 and 1.
C8_NonBinaryRaises ==
    OverlapDone =>
        /\ (~BooleanGroundTruth) <=> (ret.kind = "raised" /\ ret.error = "ValueError")
        /\ (~BooleanGroundTruth) => frame.computed = {}
        /\ BooleanGroundTruth => "counts" \in frame.computed

\* C8 witness: a ground truth with a True pixel and a pixel that is neither
\* 0 nor 1 has been rejected.
C8_Witness ==
    /\ OverlapDone
    /\ \E p \in Pix : args.ground_truth_image[p] = 2
    /\ \E p \in Pix : args.ground_truth_image[p] = 1
    /\ ret.kind = "raised"
    /\ ret.error = "ValueError"

\* C20 as stated: for images of more than 2 dimensions, with or without a
\* mask, measure_image_overlap completes and its confusion counts are the
\* counts over the voxels the mask selects.
C20_StackCompletesWithVoxelCounts ==
    (OverlapStackDone /\ BooleanGroundTruth) =>
        /\ ret.kind = "returned"
        /\ frame.counts.true_positive_count = TP
        /\ frame.counts.false_positive_count = FP
        /\ frame.counts.false_negative_count = FN
        /\ frame.counts.true_negative_count = TN

\* What the code keeps of C20: without a mask the confusion counts of a
\* stack are the counts over all its voxels.
StackCountsWithoutMask ==
    (OverlapStackDone /\ BooleanGroundTruth /\ IsNone(args.mask)) =>
        /\ frame.counts.true_positive_count = TP
        /\ frame.counts.false_positive_count = FP
        /\ frame.counts.false_negative_count = FN
        /\ frame.counts.true_negative_count = TN

(***************************************************************************)
(* Properties of separate_neighboring_objects (checked under SpecSeparate) *)
(***************************************************************************)
SeparateDone == op = "separate_neighboring_objects" /\ pc = "done"

\* The spellings of "none" among the method names.
NoneSpellings == {"none", "None", "NONE"}

\* C1: when unclump_method or watershed_method is "none" in any case,
\* separate_neighboring_objects returns labeled_image unchanged and runs no
\* smoothing, maxima detection or growth; with return_cp_output it returns
\* (labeled_image, an all-zero array of the same shape, 7).
C1_NoneReturnsInput ==
    (/\ SeparateDone
     /\ args.unclump_method \in NoneSpellings \/ args.watershed_method \in NoneSpellings) =>
        /\ ret.kind = "returned"
        /\ frame.calls = <<>>
        /\ IF args.return_cp_output
           THEN /\ Len(ret.value) = 3
                /\ ret.value[1] = args.labeled_image
                /\ ret.value[2] = [p \in Pix |-> 0]
                /\ ret.value[3] = FInt(7)
           ELSE ret.value = args.labeled_image

\* C1 witness: a call with unclump_method "None", an unsupported watershed
\* method, a label image with an object and return_cp_output has returned
\* the triple.
C1_Witness ==
    /\ SeparateDone
    /\ args.unclump_method = "None"
    /\ args.watershed_method = "bogus"
    /\ args.return_cp_output
    /\ \E p \in Pix : args.labeled_image[p] > 0
    /\ ret.kind = "returned"
    /\ ret.value[1] = args.labeled_image

\* The spellings of the documented method names.
DocumentedUnclump == {"intensity", "shape", "Shape"} \cup NoneSpellings

DocumentedWatershed ==
    {"intensity", "shape", "propagate", "Propagate"} \cup NoneSpellings

\* C14 as stated: a call with an undocumented unclump_method or
\* watershed_method ends in ValueError, whatever the other method is.
C14_UnsupportedRaises ==
    (/\ SeparateDone
     /\ \/ args.unclump_method \notin DocumentedUnclump
        \/ args.watershed_method \notin DocumentedWatershed) =>
        /\ ret.kind = "raised"
        /\ ret.error = "ValueError"

\* C14 amended: a call with an undocumented method name ends in ValueError
\* when neither method is "none", and returns labeled_image unchanged when
\* the other method is "none".
C14_UnsupportedRaisesUnlessNone ==
    (/\ SeparateDone
     /\ \/ args.unclump_method \notin DocumentedUnclump
        \/ args.watershed_method \notin DocumentedWatershed) =>
        IF args.unclump_method \in NoneSpellings \/ args.watershed_method \in NoneSpellings
        THEN /\ ret.kind = "returned"
             /\ ret.value = IF args.return_cp_output
                            THEN <<args.labeled_image, [p \in Pix |-> 0], FInt(7)>>
                            ELSE args.labeled_image
        ELSE /\ ret.kind = "raised"
             /\ ret.error = "ValueError"
             /\ ret.value = <<>>

\* C14 witness: a call with a supported unclump method and an undocumented
\* watershed method has been rejected after the maxima detection.
C14_Witness ==
    /\ SeparateDone
    /\ args.unclump_method = "intensity"
    /\ args.watershed_method = "bogus"
    /\ ret.kind = "raised"
    /\ ret.error = "ValueError"
    /\ frame.calls = <<"smooth_image", "strel_disk", "get_maxima">>

(***************************************************************************)
(* Properties of get_weights (checked under SpecWeights)                   *)
(***************************************************************************)
WeightsDone == op = "get_weights" /\ pc = "done"

MaskCount == Cardinality({p \in Pix : args.labels_mask[p]})

\* C16 as stated: for every list of representatives and every mask,
\* get_weights returns one non-negative weight per representative and the
\* weights sum to the number of foreground pixels of the mask.
C16_OneWeightEachSumToMask ==
    WeightsDone =>
        /\ ret.kind = "returned"
        /\ Len(ret.value) = Len(args.j)
        /\ \A k \in 1..Len(ret.value) : ret.value[k] >= 0
        /\ SumSeq(ret.value) = MaskCount

\* C16 amended: for at least one representative and a mask with a
\* foreground pixel, get_weights returns one non-negative weight per
\* representative, 0 for a representative no pixel of the mask is nearest to
\* and for all but one of the representatives of a pixel, and the weights
\* sum to the number of foreground pixels of the mask; for a mask without
\* foreground it returns an empty array, and without representatives it
\* returns no weight (an empty array, or an error).
C16_WeightsSumUnlessEmpty ==
    WeightsDone =>
        IF MaskCount = 0
        THEN ret.kind = "returned" /\ ret.value = <<>>
        ELSE IF Len(args.j) = 0
        THEN ret.value = <<>>
        ELSE /\ ret.kind = "returned"
             /\ Len(ret.value) = Len(args.j)
             /\ \A k \in 1..Len(ret.value) : ret.value[k] >= 0
             /\ SumSeq(ret.value) = MaskCount
             /\ \A k \in 1..Len(args.j) :
                    (\A p \in Pix : args.labels_mask[p] =>
                        \E x \in 1..Len(args.j) :
                            Abs(p - args.j[x]) < Abs(p - args.j[k])) => ret.value[k] = 0
             /\ \A k, x \in 1..Len(args.j) :
                    (k # x /\ args.j[k] = args.j[x]) => (ret.value[k] = 0 \/ ret.value[x] = 0)

\* C16 witness: two representatives of the same pixel have been weighted
\* for a mask with two foreground pixels; one of them has weight 0 and the
\* other the whole mask.
C16_Witness ==
    /\ WeightsDone
    /\ Len(args.j) = 2
    /\ args.j[1] = args.j[2]
    /\ MaskCount = 2
    /\ Len(ret.value) = 2
    /\ ret.value[1] = 0
    /\ ret.value[2] = 2

(***************************************************************************)
(* Properties of merge_objects, preserve_objects, discard_objects and      *)
(* segment_objects (checked under SpecCombine)                             *)
(***************************************************************************)
CombineDone ==
    /\ op \in {"merge_objects", "preserve_objects", "discard_objects", "segment_objects"}
    /\ pc = "done"

\* C17 as stated: after a call of merge_objects, preserve_objects,
\* discard_objects or segment_objects the caller's labels_x and labels_y
\* hold what they held before the call.
C17_CallerArraysUnchanged ==
    CombineDone =>
        /\ frame.labels_x = args.labels_x
        /\ frame.labels_y = args.labels_y

\* What the code keeps of C17: preserve_objects leaves labels_x alone.
PreserveLeavesLabelsX ==
    (CombineDone /\ op = "preserve_objects") => frame.labels_x = args.labels_x

\* A call of discard_objects has ended.
DiscardDone == op = "discard_objects" /\ pc = "done"

\* The pixels of the object with label l of a label image.
ObjectOf(labels, l) == {p \in Pix : labels[p] = l}

\* The labels_y object overlaps a labels_x object in at least one pixel.
OverlapsX(m) == \E p \in ObjectOf(args.labels_y, m) : args.labels_x[p] > 0

\* C24: the output of discard_objects contains every object of labels_x
\* with its pixels and label unchanged, contains in full every object of
\* labels_y that overlaps no object of labels_x, and contains no pixel of a
\* labels_y object that overlaps a labels_x object.
C24_DiscardKeepsXAndFreeY ==
    DiscardDone =>
        /\ ret.kind = "returned"
        /\ \A l \in PositiveIndices(args.labels_x) :
              ObjectOf(ret.value, l) = ObjectOf(args.labels_x, l)
        /\ \A m \in PositiveIndices(args.labels_y) :
              \A p \in ObjectOf(args.labels_y, m) :
                  ret.value[p] = IF OverlapsX(m) THEN args.labels_x[p] ELSE m

\* What the code keeps of C24: pixel by pixel the output is labels_x on
\* the objects of labels_x, labels_y on the objects of labels_y that
\* overlap no object of labels_x, and 0 elsewhere.
DiscardPixelwise ==
    DiscardDone =>
        /\ ret.kind = "returned"
        /\ \A p \in Pix :
              ret.value[p] = IF args.labels_x[p] > 0 THEN args.labels_x[p]
                             ELSE IF args.labels_y[p] > 0 /\ ~OverlapsX(args.labels_y[p])
                                  THEN args.labels_y[p]
                                  ELSE 0

\* A call of segment_objects has ended.
SegmentDone == op = "segment_objects" /\ pc = "done"

\* The labels_y objects that cover pixels of the labels_x object l.
CoveringY(l) == {args.labels_y[p] : p \in ObjectOf(args.labels_x, l)}

\* Every pixel of the labels_x object l is covered by a labels_y object.
WhollyCovered(l) == 0 \notin CoveringY(l)

\* C27: in segment_objects, a labels_x object wholly covered by labels_y
\* objects keeps its label on exactly its pixels when one labels_y object
\* with the identical pixel set covers it, and when two or more labels_y
\* objects cover it the object is skipped and the function still returns a
\* label image instead of raising.
C27_IdenticalKeptAmbiguousSkipped ==
    SegmentDone =>
        \A l \in PositiveIndices(args.labels_x) :
            WhollyCovered(l) =>
                /\ (\E m \in Labels : /\ CoveringY(l) = {m}
                                       /\ ObjectOf(args.labels_y, m) = ObjectOf(args.labels_x, l)) =>
                       /\ ret.kind = "returned"
                       /\ ObjectOf(ret.value, l) = ObjectOf(args.labels_x, l)
                /\ Cardinality(CoveringY(l)) >= 2 => ret.kind = "returned"

\* What the code does for a labels_x object covered by two or more
\* labels_y objects: the call raises ValueError.
AmbiguousCoverRaises ==
    (SegmentDone /\ \E l \in PositiveIndices(args.labels_x) :
                        WhollyCovered(l) /\ Cardinality(CoveringY(l)) >= 2) =>
        ret.kind = "raised" /\ ret.error = "ValueError"

\* Without such an object an identical object keeps its label and pixels.
IdenticalKeptWithoutAmbiguousCover ==
    (SegmentDone /\ \A k \in PositiveIndices(args.labels_x) :
                        ~(WhollyCovered(k) /\ Cardinality(CoveringY(k)) >= 2)) =>
        \A l \in PositiveIndices(args.labels_x) :
            (\E m \in Labels : /\ CoveringY(l) = {m}
                                /\ m # 0
                                /\ ObjectOf(args.labels_y, m) = ObjectOf(args.labels_x, l)) =>
                /\ ret.kind = "returned"
                /\ ObjectOf(ret.value, l) = ObjectOf(args.labels_x, l)

(***************************************************************************)
(* Properties of filter_on_size (checked under SpecFilterSize)             *)
(***************************************************************************)
FilterSizeDone == op = "filter_on_size" /\ pc = "done"

\* The filtered label image of the result.
FilteredImage == IF args.return_only_small THEN ret.value[1] ELSE ret.value

\* The pixels of the object with label l in the argument.
ObjectPixels(l) == {p \in Pix : args.labeled_image[p] = l}

\* 4 * area lies within pi * min_size^2 and pi * max_size^2, with
\* 333/106 < pi < 355/113 and the sizes as fractions n/d.
AreaWithinBounds(area) ==
    /\ 4 * area * args.min_size.d * args.min_size.d * 113
          >= 355 * args.min_size.n * args.min_size.n
    /\ 4 * area * args.max_size.d * args.max_size.d * 106
          <= 333 * args.max_size.n * args.max_size.n

\* C18: for min_size <= max_size every object is kept whole with its label
\* when its area lies within pi * min_size^2 / 4 and pi * max_size^2 / 4 and
\* zeroed whole otherwise, the background stays background (so the kept and
\* the removed pixels add up to the foreground), and the caller's array is
\* not modified.
C18_KeepsWholeObjectsWithinBounds ==
    (FilterSizeDone /\ FLeq(args.min_size, args.max_size)) =>
        /\ ret.kind = "returned"
        /\ frame.labeled_image = args.labeled_image
        /\ \A p \in Pix : args.labeled_image[p] = 0 => FilteredImage[p] = 0
        /\ \A l \in Labels \ {0} :
              IF AreaWithinBounds(Cardinality(ObjectPixels(l)))
              THEN \A p \in ObjectPixels(l) : FilteredImage[p] = l
              ELSE \A p \in ObjectPixels(l) : FilteredImage[p] = 0
        /\ Cardinality({p \in Pix : FilteredImage[p] # 0})
             + Cardinality({p \in Pix : args.labeled_image[p] # 0 /\ FilteredImage[p] = 0})
             = Cardinality({p \in Pix : args.labeled_image[p] # 0})

\* C18 witness: an image with an object of one pixel and an object of two
\* pixels has been filtered with bounds that remove the first as too small
\* and keep the second.
C18_Witness ==
    /\ FilterSizeDone
    /\ FLeq(args.min_size, args.max_size)
    /\ \E l, k \in Labels \ {0} :
          /\ Cardinality(ObjectPixels(l)) = 1
          /\ Cardinality(ObjectPixels(k)) = 2
          /\ \A p \in ObjectPixels(l) : FilteredImage[p] = 0
          /\ \A p \in ObjectPixels(k) : FilteredImage[p] = k

\* C18 witness of the upper bound: an object of two pixels has been removed
\* as too large while an object of one pixel was kept.
TooLargeRemoved ==
    /\ FilterSizeDone
    /\ FLeq(args.min_size, args.max_size)
    /\ \E l, k \in Labels \ {0} :
          /\ Cardinality(ObjectPixels(l)) = 1
          /\ Cardinality(ObjectPixels(k)) = 2
          /\ \A p \in ObjectPixels(l) : FilteredImage[p] = l
          /\ \A p \in ObjectPixels(k) : FilteredImage[p] = 0

(***************************************************************************)
(* More properties of separate_neighboring_objects (under SpecSeparate)    *)
(***************************************************************************)
\* The label image of the result.
SeparatedImage == IF args.return_cp_output THEN ret.value[1] ELSE ret.value

FilterBorderDone == op = "filter_on_border" /\ pc = "done"

\* The object has a pixel in the first or last row or column of the image.
TouchesImageBorder(labeled_image, l) ==
    \E g \in Grid : /\ labeled_image[g] = l
                    /\ (g[1] = 1 \/ g[2] = 1 \/ g[1] = Side \/ g[2] = Side)

\* The object has a pixel of the mask next to a pixel outside the mask.
TouchesMaskBorder(labeled_image, mask, l) ==
    \E g \in Grid : /\ labeled_image[g] = l
                    /\ mask[g]
                    /\ \E h \in Neighbours4(g) : h \notin Grid \/ ~mask[h]

\* The objects the documentation removes.
BorderObjects(labeled_image, mask) ==
    {l \in Labels \ {0} :
        \/ TouchesImageBorder(labeled_image, l)
        \/ ~IsNone(mask) /\ TouchesMaskBorder(labeled_image, mask[1], l)}

\* C21: filter_on_border returns the image with every object zeroed that
\* has a pixel in the first or last row or column or, when a mask is given,
\* a pixel on the border of the mask, whether or not some object touches
\* the border of the image; every other object is returned unchanged.
C21_BorderAndMaskBorderObjectsZeroed ==
    FilterBorderDone =>
        ret = [g \in Grid |->
                  IF args.labeled_image[g] \in BorderObjects(args.labeled_image, args.mask)
                  THEN 0
                  ELSE args.labeled_image[g]]

\* Without an object on the border of the image the documented objects are
\* the ones removed.
MaskBorderZeroedWithoutImageBorderObject ==
    (FilterBorderDone /\ \A l \in Labels \ {0} : ~TouchesImageBorder(args.labeled_image, l)) =>
        ret = [g \in Grid |->
                  IF args.labeled_image[g] \in BorderObjects(args.labeled_image, args.mask)
                  THEN 0
                  ELSE args.labeled_image[g]]

(***************************************************************************)
(* Properties of expand_until_touching (checked under SpecExpand)          *)
(***************************************************************************)
ExpandDone == op = "expand_until_touching" /\ pc = "done"

\* C22: for a label image with at least one object expand_until_touching
\* returns an image without zero pixel: every background pixel has the
\* label of a nearest object pixel, however far that is, and every object
\* pixel keeps its label.
C22_EveryPixelAssigned ==
    (ExpandDone /\ ObjectPixels2(args.labels) # {}) =>
        /\ ret.kind = "returned"
        /\ \A g \in Grid :
              /\ ret.value[g] # 0
              /\ args.labels[g] # 0 => ret.value[g] = args.labels[g]
              /\ args.labels[g] = 0 =>
                    ret.value[g] \in {args.labels[h] : h \in NearestObjectPixels(args.labels, g)}

\* What the code does assign: the background pixels whose nearest object
\* pixel is no farther than the side of the image.
AssignedWithinSide ==
    (ExpandDone /\ ObjectPixels2(args.labels) # {}) =>
        /\ ret.kind = "returned"
        /\ \A g \in Grid :
              /\ args.labels[g] # 0 => ret.value[g] = args.labels[g]
              /\ args.labels[g] = 0 =>
                    \A h \in NearestObjectPixels(args.labels, g) :
                        IF Dist2(g, h) <= Side * Side
                        THEN ret.value[g] \in {args.labels[k] : k \in NearestObjectPixels(args.labels, g)}
                        ELSE ret.value[g] = 0

(***************************************************************************)
(* Properties of FlipAndRotate (checked under SpecFlip)                    *)
(***************************************************************************)
\* An image of a group of a module set to "Use mouse" and "Only Once" has
\* run.
MouseOnceRan ==
    /\ op = "FlipAndRotate"
    /\ args.rotate_choice = ROTATE_MOUSE
    /\ args.how_often = IO_ONCE
    /\ pc = "group"
    /\ frame.image >= 1

\* C23: with "Use mouse" and "Only Once", over prepare_group, run(image 1),
\* run(image 2), ... the user is asked for the angle on the first image
\* only, and every later image is rotated by that same stored angle without
\* asking; the angle used is never None.
C23_AskedOnceThenStoredAngle ==
    MouseOnceRan =>
        /\ ret.kind = "returned"
        /\ ~IsNone(ret.angle)
        /\ ret.asked <=> frame.image = 1
        /\ ret.angle = frame.used[1]
        /\ has_key(frame.d, D_ANGLE) /\ frame.d[D_ANGLE] = frame.used[1]

\* What the code does with "Use mouse" and "Only Once": no image of the
\* group is rotated and the user is never asked.
MouseOnceAlwaysRaises ==
    MouseOnceRan => ret.kind = "raised" /\ ret.error = "TypeError" /\ ~ret.asked

(***************************************************************************)
(* More properties of compute_rand_index (under SpecRand)                  *)
(***************************************************************************)
\* The pairs of selected pixels, each pair once.
SelectedPairs == {pq \in Selected(args.mask) \X Selected(args.mask) : pq[1] < pq[2]}

\* The pairs in the same set of a labeling, and in different sets of it.
SameSet(labels) == {pq \in SelectedPairs : labels[pq[1]] = labels[pq[2]]}

DifferentSets(labels) == {pq \in SelectedPairs : labels[pq[1]] # labels[pq[2]]}

\* A call with at least 2 selected pixels has ended.
RandOfPairsDone == RandDone /\ Cardinality(Selected(args.mask)) >= 2

\* C25: with n >= 2 selected pixels the A, B, C, D of compute_rand_index
\* are the pair counts found by going through every pair of selected
\* pixels (A: same set in both labelings, C: same ground-truth set and
\* different test sets, D: same test set and different ground-truth sets,
\* B: different sets in both); the four are non-negative, add up to
\* n(n-1)/2, and rand_index = (A + B) / (n(n-1)/2).
C25_PairCounts ==
    RandOfPairsDone =>
        /\ frame.A = FInt(Cardinality(SameSet(args.ground_truth_labels)
                                      \cap SameSet(args.test_labels)))
        /\ frame.C = FInt(Cardinality(SameSet(args.ground_truth_labels)
                                      \cap DifferentSets(args.test_labels)))
        /\ frame.D = FInt(Cardinality(SameSet(args.test_labels)
                                      \cap DifferentSets(args.ground_truth_labels)))
        /\ frame.B = FInt(Cardinality(DifferentSets(args.ground_truth_labels)
                                      \cap DifferentSets(args.test_labels)))
        /\ \A x \in {frame.A, frame.B, frame.C, frame.D} : FLeq(FInt(0), x)
        /\ frame.total = FInt(Cardinality(SelectedPairs))
        /\ FAdd(FAdd(frame.A, frame.B), FAdd(frame.C, frame.D)) = frame.total
        /\ ret.kind = "returned"
        /\ ret.value.rand_index =
              Frac(Cardinality(SameSet(args.ground_truth_labels) \cap SameSet(args.test_labels))
                   + Cardinality(DifferentSets(args.ground_truth_labels)
                                 \cap DifferentSets(args.test_labels)),
                   Cardinality(SelectedPairs))

\* C25 witness: a call has ended whose pairs include one counted by B, one
\* by C and one by D.
C25_Witness ==
    /\ RandOfPairsDone
    /\ frame.B.n > 0
    /\ frame.C.n > 0
    /\ frame.D.n > 0

\* A call has ended whose pairs include one counted by A and one by C.
PairsSameInBoth ==
    /\ RandOfPairsDone
    /\ frame.A.n > 0
    /\ frame.C.n > 0

(***************************************************************************)
(* Properties of get_skeleton_points (checked under SpecSkeleton)          *)
(***************************************************************************)
SkeletonDone == op = "get_skeleton_points" /\ pc = "done"

\* Pixel g comes before pixel h in the order by branch-region id, then
\* propagation distance, then row, then column.
SortsBefore(g, h) ==
    \/ frame.ts_labels[g] < frame.ts_labels[h]
    \/ /\ frame.ts_labels[g] = frame.ts_labels[h]
       /\ \/ frame.distances[g] < frame.distances[h]
          \/ /\ frame.distances[g] = frame.distances[h]
             /\ (g[1] < h[1] \/ (g[1] = h[1] /\ g[2] < h[2]))

\* The index (from 0) of a skeleton pixel in the sorted order.
SortedIndex(g) == Cardinality({h \in frame.total_skel : SortsBefore(h, g)})

\* C26: get_skeleton_points returns all n skeleton pixels when n <=
\* max_points; when n > max_points it returns exactly max_points pixels,
\* the ones at the indices floor(linspace(0, n-1, max_points)) of the
\* pixels sorted by (branch-region id, propagation distance, row, col): the
\* indices are strictly increasing, every chosen point is a skeleton pixel,
\* and for max_points >= 2 the first and the last pixel of the sorted order
\* are chosen.
C26_AllOrEvenlySpaced ==
    SkeletonDone =>
        IF Cardinality(frame.total_skel) <= args.max_points
        THEN /\ Len(ret) = Cardinality(frame.total_skel)
             /\ {ret[k] : k \in 1..Len(ret)} = frame.total_skel
        ELSE /\ Len(ret) = args.max_points
             /\ \A k \in 1..Len(ret) :
                   /\ ret[k] \in frame.total_skel
                   /\ (args.max_points - 1) * SortedIndex(ret[k])
                         <= (k - 1) * (Cardinality(frame.total_skel) - 1)
                   /\ (k - 1) * (Cardinality(frame.total_skel) - 1)
                         < (args.max_points - 1) * (SortedIndex(ret[k]) + 1)
                         \/ args.max_points = 1
                   /\ args.max_points = 1 => SortedIndex(ret[k]) = 0
             /\ \A k \in 1..(Len(ret) - 1) : SortedIndex(ret[k]) < SortedIndex(ret[k + 1])
             /\ args.max_points >= 2 =>
                   /\ SortedIndex(ret[1]) = 0
                   /\ SortedIndex(ret[Len(ret)]) = Cardinality(frame.total_skel) - 1

\* C26 witness: a skeleton of 4 pixels in two branch regions has been
\* decimated to 3 points, the one at index floor(1.5) = 1 among them, and
\* the sorted order is not the row-major order.
C26_Witness ==
    /\ SkeletonDone
    /\ Cardinality(frame.total_skel) = 4
    /\ args.max_points = 3
    /\ Len(ret) = 3
    /\ SortedIndex(ret[2]) = 1
    /\ \E g, h \in frame.total_skel : SortsBefore(g, h) /\ RowMajor(h) < RowMajor(g)

(***************************************************************************)
(* Properties of the random numbers (checked under SpecRandom)             *)
(***************************************************************************)
\* The call has been made twice.
CalledTwice == op = "process" /\ pc = "done"

\* C28: the result of separate_neighboring_objects in shape mode and of
\* get_kmeans_points depends on the arguments only: whatever the process
\* did before and whatever state the process-wide generator was in, two
\* calls with the same arguments return the same result.
C28_SameArgumentsSameResult == CalledTwice => ret[1] = ret[2]

\* C28 witness: separate_neighboring_objects has run twice in shape mode on
\* the same arguments, the process-wide generator in different states
\* before the two calls, and has split an object in two both times.
C28_Witness ==
    /\ CalledTwice
    /\ args.f = "separate_neighboring_objects"
    /\ frame.before[1] # frame.before[2]
    /\ ret[1].kind = "returned"
    /\ ret[2].kind = "returned"
    /\ \E p, q \in Pix : /\ args.a.labeled_image[p] = args.a.labeled_image[q]
                         /\ ret[2].value[p] = 1
                         /\ ret[2].value[q] = 2

\* get_kmeans_points has run KMeans twice on the same arguments, the
\* process-wide generator in different states before the two calls.
KMeansTwice ==
    /\ CalledTwice
    /\ args.f = "get_kmeans_points"
    /\ ReachesKMeans(args.a)
    /\ frame.before[1] # frame.before[2]
    /\ ret[1].kind = "returned"
    /\ ret[1] = ret[2]

\* A call in shape mode leaves the process-wide generator in the state
\* after seed(0) and the draw of the jitter, whatever state it was in.
ShapeModeResetsGenerator ==
    (CalledTwice /\ args.f = "separate_neighboring_objects") =>
        frame.generator = uniform(seed(0)).state

=============================================================================
